---- MODULE Spec2Model ----
(***************************************************************************)
(* recon_metadata: the unified book record (Metadata), its merge operator  *)
(* (impl Add for Metadata) and the orchestrator (Metadata::from_isbn,      *)
(* Metadata::from_description) that queries several providers and folds    *)
(* their records into one.                                                 *)
(*                                                                         *)
(* Specifications:                                                         *)
(*   SpecMerge  records are built value by value, then merged; the         *)
(*              algebraic claims about Add are settled here.               *)
(*   Spec       the orchestrator: one call of from_isbn or                 *)
(*              from_description, its concurrent provider requests, the    *)
(*              join_all barrier and the fold.                             *)
(*   SpecSearch the identifier-search decoders: a search response is read  *)
(*              item by item and the candidate identifiers are extracted.  *)
(*   SpecTranslate  the translaters of the identifier and date keys of a   *)
(*              provider object.                                           *)
(*   SpecDecode the Deserialize of GoogleBooks and OpenLibrary: the keys   *)
(*              of a JSON object are read in order and the record built.   *)
(*   SpecFetch  one provider call, GoogleBooks::from_isbn or               *)
(*              OpenLibrary::from_isbn: the request, the body, its         *)
(*              decoding and the record returned.                          *)
(*   SpecMinimal  OpenLibraryMinimal::from_isbn of sources/open_library.rs *)
(*              (a file lib.rs does not declare): the details request,     *)
(*              then the request for the work that holds the description.  *)
(*   SpecAdaptor  parse_languages and parse_covers of sources/adaptor.rs    *)
(*              (a file lib.rs does not declare), as visit_map of          *)
(*              sources/open_library.rs calls them.                        *)
(*   SpecLive   Spec with the fairness of an executor that polls a future  *)
(*              whose request has completed.                               *)
(***************************************************************************)
EXTENDS Naturals, Sequences, FiniteSets

VARIABLES
    operand,    \* SpecMerge: the three records A, B, C being built
    mpc,        \* SpecMerge: "build" while values are inserted, then "merged"
    merged,     \* SpecMerge: the results of the merges of the operands
    call,       \* Spec: the entry point called and its arguments
    pc,         \* Spec: where the call is: "call", "search", "join", "done", "panicked"
    searchOut,  \* Spec: what description_from_source returned, once it has
    isbns,      \* Spec: the identifiers from_isbn runs for (one per sub-flow)
    task,       \* Spec: task[k][i], the request of sub-flow k to sources[i]
    subflow,    \* Spec: subflow[k], the from_isbn future of identifiers[k]
    result,     \* Spec: what the call returned
    overtaken,  \* Spec: in a direct from_isbn call, a request completed while
                \* one to a source listed before it was pending (history)
    firstFailure, \* Spec: in a direct from_isbn call, the Err of the request
                \* that failed before every other one (history)
    fetches,    \* Spec: the number of requests (reqwest::get) sent so far
                \* (history)
    response,   \* SpecSearch: the decoded body of a provider's search response
    candidates, \* SpecSearch: what the provider's from_description returned
    field,      \* SpecTranslate: the value serde decoded for one key of a
                \* provider object, as handed to its translater
    translated, \* SpecTranslate: the record fields the translater returned
    object,     \* SpecDecode: the keys of a provider's JSON object, in order
    decoded,    \* SpecDecode: what the provider's Deserialize returned
    request,    \* SpecFetch: one provider from_isbn call: its source and
                \* identifier, how far it is, the body received and decoded
    provided,   \* SpecFetch: what the provider's from_isbn returned
    lookup,     \* SpecMinimal: one OpenLibraryMinimal::from_isbn call: how far
                \* it is, the record of the first pass, the work key
    minimal,    \* SpecMinimal: what OpenLibraryMinimal::from_isbn returned
    adaptee,    \* SpecAdaptor: the value serde decoded for the "languages" or
                \* the "covers" key, as handed to its adaptor
    adapted     \* SpecAdaptor: what the adaptor returned

mergeVars == <<operand, mpc, merged>>

flowVars ==
    <<call, pc, searchOut, isbns, task, subflow, result, overtaken, firstFailure,
      fetches>>

searchVars == <<response, candidates>>

translateVars == <<field, translated>>

decodeVars == <<object, decoded>>

fetchVars == <<request, provided>>

minimalVars == <<lookup, minimal>>

adaptorVars == <<adaptee, adapted>>

vars ==
    <<mergeVars, flowVars, searchVars, translateVars, decodeVars, fetchVars,
      minimalVars, adaptorVars>>

\* What the actions of each specification leave alone.
notMergeVars ==
    <<flowVars, searchVars, translateVars, decodeVars, fetchVars, minimalVars,
      adaptorVars>>

notFlowVars ==
    <<mergeVars, searchVars, translateVars, decodeVars, fetchVars, minimalVars,
      adaptorVars>>

notSearchVars ==
    <<mergeVars, flowVars, translateVars, decodeVars, fetchVars, minimalVars,
      adaptorVars>>

notTranslateVars ==
    <<mergeVars, flowVars, searchVars, decodeVars, fetchVars, minimalVars,
      adaptorVars>>

notDecodeVars ==
    <<mergeVars, flowVars, searchVars, translateVars, fetchVars, minimalVars,
      adaptorVars>>

notFetchVars ==
    <<mergeVars, flowVars, searchVars, translateVars, decodeVars, minimalVars,
      adaptorVars>>

notMinimalVars ==
    <<mergeVars, flowVars, searchVars, translateVars, decodeVars, fetchVars,
      adaptorVars>>

notAdaptorVars ==
    <<mergeVars, flowVars, searchVars, translateVars, decodeVars, fetchVars,
      minimalVars>>

-----------------------------------------------------------------------------
(* Bounds and sample values                                                *)

\* Total number of values inserted into the three operands of SpecMerge.
MaxInserts == 3

\* Longest provider list passed to from_isbn / from_description.
MaxSources == 2

\* Longest provider list passed to from_description in SpecLive.
MaxLiveSources == 1

\* Sample field values (titles, ISBNs, dates, page counts, URLs are all
\* hashable values, compared by equality).
SampleValues == {"u", "v"}

-----------------------------------------------------------------------------
(* HashSet<T>: a collection without duplicates.  It is modelled as a       *)
(* sequence without repetition: the sequence is the set's iteration order  *)
(* (which Rust leaves unspecified), its elements are the set's content.    *)

Elems(s) == {s[i] : i \in DOMAIN s}

NoDuplicates(s) == \A i, j \in DOMAIN s : s[i] = s[j] => i = j

\* A Vec::push in place of HashSet::insert: the value is stored even when
\* it is already there.
HashSetInsertAlways(set, x) == Append(set, x)

\* HashSet::insert: adds the value unless an equal value is present.
HashSetInsert(set, x) == IF x \in Elems(set) THEN set ELSE Append(set, x)

RECURSIVE ExtendFrom(_, _, _)
\* The loop of Extend::extend: insert other[i], other[i+1], ... into set.
ExtendFrom(set, other, i) ==
    IF i > Len(other) THEN set
    ELSE ExtendFrom(HashSetInsert(set, other[i]), other, i + 1)

\* `self.f = other.f` in place of `self.f.extend(other.f)`.
HashSetExtendAssign(self, other) == other

\* Extending only a field that has no value yet: a value is discarded
\* because the record already supplies one.
HashSetExtendIfEmpty(self, other) ==
    IF self = <<>> THEN ExtendFrom(self, other, 1) ELSE self

\* HashSet::extend(other): every element of other is inserted into self.
HashSetExtend(self, other) == ExtendFrom(self, other, 1)

-----------------------------------------------------------------------------
(* CoverImage and Metadata                                                 *)

CoverFields ==
    {"small_thumbnail", "thumbnail", "small", "medium", "large", "extra_large"}

MetaFields ==
    {"isbn10", "isbn13", "title", "author", "description", "page_count",
     "publisher", "publication_date", "language", "tag"}

\* CoverImage::default(): every size class empty.
CoverImageDefault == [c \in CoverFields |-> <<>>]

\* Metadata::default(): every field empty.
MetadataDefault ==
    [isbn10 |-> <<>>, isbn13 |-> <<>>, title |-> <<>>, author |-> <<>>,
     description |-> <<>>, page_count |-> <<>>, publisher |-> <<>>,
     publication_date |-> <<>>, language |-> <<>>, tag |-> <<>>,
     cover_image |-> CoverImageDefault]

\* A copy-paste slip: two size classes extended from each other's source.
CoverImageExtendCrossed(self, other) ==
    [small_thumbnail |-> HashSetExtend(self.small_thumbnail, other.thumbnail),
     thumbnail       |-> HashSetExtend(self.thumbnail, other.small_thumbnail),
     small           |-> HashSetExtend(self.small, other.small),
     medium          |-> HashSetExtend(self.medium, other.medium),
     large           |-> HashSetExtend(self.large, other.large),
     extra_large     |-> HashSetExtend(self.extra_large, other.extra_large)]

\* CoverImage::extend
CoverImageExtend(self, other) ==
    [small_thumbnail |-> HashSetExtend(self.small_thumbnail, other.small_thumbnail),
     thumbnail       |-> HashSetExtend(self.thumbnail, other.thumbnail),
     small           |-> HashSetExtend(self.small, other.small),
     medium          |-> HashSetExtend(self.medium, other.medium),
     large           |-> HashSetExtend(self.large, other.large),
     extra_large     |-> HashSetExtend(self.extra_large, other.extra_large)]

\* Add with the line `self.tag.extend(other.tag)` left out.
AddWithoutTag(self, other) ==
    [isbn10           |-> HashSetExtend(self.isbn10, other.isbn10),
     isbn13           |-> HashSetExtend(self.isbn13, other.isbn13),
     title            |-> HashSetExtend(self.title, other.title),
     author           |-> HashSetExtend(self.author, other.author),
     description      |-> HashSetExtend(self.description, other.description),
     page_count       |-> HashSetExtend(self.page_count, other.page_count),
     publisher        |-> HashSetExtend(self.publisher, other.publisher),
     publication_date |-> HashSetExtend(self.publication_date, other.publication_date),
     language         |-> HashSetExtend(self.language, other.language),
     tag              |-> self.tag,
     cover_image      |-> CoverImageExtend(self.cover_image, other.cover_image)]

\* impl Add for Metadata: self + other
Add(self, other) ==
    [isbn10           |-> HashSetExtend(self.isbn10, other.isbn10),
     isbn13           |-> HashSetExtend(self.isbn13, other.isbn13),
     title            |-> HashSetExtend(self.title, other.title),
     author           |-> HashSetExtend(self.author, other.author),
     description      |-> HashSetExtend(self.description, other.description),
     page_count       |-> HashSetExtend(self.page_count, other.page_count),
     publisher        |-> HashSetExtend(self.publisher, other.publisher),
     publication_date |-> HashSetExtend(self.publication_date, other.publication_date),
     language         |-> HashSetExtend(self.language, other.language),
     tag              |-> HashSetExtend(self.tag, other.tag),
     cover_image      |-> CoverImageExtend(self.cover_image, other.cover_image)]

\* The collections of a record, addressed by one name: the ten HashSet
\* fields of Metadata and the six size classes of its cover_image.
Slots == MetaFields \cup CoverFields

SlotOf(m, f) == IF f \in CoverFields THEN m.cover_image[f] ELSE m[f]

\* m with the value x inserted into the collection f.
InsertInto(m, f, x) ==
    IF f \in CoverFields
    THEN [m EXCEPT !.cover_image[f] = HashSetInsert(@, x)]
    ELSE [m EXCEPT ![f] = HashSetInsert(@, x)]

\* Number of values a record holds, over all its collections.
RECURSIVE SumLen(_, _)
SumLen(m, fs) ==
    IF fs = {} THEN 0
    ELSE LET f == CHOOSE g \in fs : TRUE
         IN  Len(SlotOf(m, f)) + SumLen(m, fs \ {f})

Size(m) == SumLen(m, Slots)

\* Equality of two records: HashSet equality (same content) in every field.
SameContent(a, b) == \A f \in Slots : Elems(SlotOf(a, f)) = Elems(SlotOf(b, f))

-----------------------------------------------------------------------------
(* SpecMerge: build three records, merge them.                             *)

Operands == {"A", "B", "C"}

MergeStart ==
    /\ operand = [r \in Operands |-> MetadataDefault]
    /\ mpc = "build"
    /\ merged = [n \in {"ab", "ba", "ab_c", "a_bc", "aa", "ea", "ae"} |-> MetadataDefault]

\* The collections that hold a value in some operand.
Populated == {f \in Slots : \E r \in Operands : SlotOf(operand[r], f) # <<>>}

\* The inputs of one run populate at most a pair of collections (any
\* pair): once two collections hold values, further values go to those.
OpenSlots(pop) == IF \E f, g \in pop : f # g THEN pop ELSE Slots

\* A decoder stores one more value in one collection of one record.
InsertValue ==
    /\ mpc = "build"
    /\ Size(operand["A"]) + Size(operand["B"]) + Size(operand["C"]) < MaxInserts
    /\ LET open == OpenSlots(Populated)
       IN  \E r \in Operands, f \in open, x \in SampleValues :
              operand' = [operand EXCEPT ![r] = InsertInto(@, f, x)]
    /\ UNCHANGED <<mpc, merged>>
    /\ UNCHANGED notMergeVars

\* The merges of the operands, each computed by Add.
MergeOperands ==
    /\ mpc = "build"
    /\ mpc' = "merged"
    /\ LET a == operand["A"]
           b == operand["B"]
           c == operand["C"]
       IN  merged' = [ab   |-> Add(a, b),
                      ba   |-> Add(b, a),
                      ab_c |-> Add(Add(a, b), c),
                      a_bc |-> Add(a, Add(b, c)),
                      aa   |-> Add(a, a),
                      ea   |-> Add(MetadataDefault, a),
                      ae   |-> Add(a, MetadataDefault)]
    /\ UNCHANGED operand
    /\ UNCHANGED notMergeVars

-----------------------------------------------------------------------------
(* Results, errors and providers                                           *)

\* Result<T, ReconError>
Ok(v) == [st |-> "ok", val |-> v]

Err(e) == [st |-> "err", err |-> e]

IsOk(r) == r.st = "ok"

IsErr(r) == r.st = "err"

\* No value yet (the call has not returned).
NoResult == [st |-> "none"]

\* The call ended in a panic (unimplemented!() / todo!()): nothing is returned.
Panicked == [st |-> "panic"]

\* enum Source
Sources == {"GoogleBooks", "OpenLibrary", "Goodreads", "Amazon"}

\* The sources whose match arm calls a provider; the arms of the others are
\* unimplemented!() and todo!().
Implemented == {"GoogleBooks", "OpenLibrary"}

\* Sample identifiers (Dune, This Is How You Lose the Time War, The Way of
\* Kings) and the one sample description.
SampleIsbns == {"9780441013593", "9781534431003", "9780765326355"}

SampleDescription == "The way of kings by brandon sanderson"

NoArg == "-"

\* The record a provider's from_isbn decodes for an identifier when its
\* request succeeds: the first item of the response, or the default record
\* when the response has no item (OpenLibrary knows nothing of the second
\* sample book).
ProviderRecord(source, isbn) ==
    CASE source = "GoogleBooks" /\ isbn = "9780441013593" ->
           [MetadataDefault EXCEPT
              !.isbn13 = <<"9780441013593">>,
              !.title = <<"Dune">>,
              !.author = <<"Frank Herbert">>,
              !.page_count = <<"896">>,
              !.language = <<"en">>,
              !.cover_image.small_thumbnail = <<"gb/dune/zoom5">>,
              !.cover_image.thumbnail = <<"gb/dune/zoom1">>]
      [] source = "OpenLibrary" /\ isbn = "9780441013593" ->
           [MetadataDefault EXCEPT
              !.isbn10 = <<"0441013597">>,
              !.isbn13 = <<"9780441013593">>,
              !.title = <<"Dune">>,
              !.author = <<"Frank Herbert">>,
              !.publisher = <<"Ace">>,
              !.tag = <<"science-fiction", "dune">>,
              !.cover_image.small = <<"ol/dune/S">>,
              !.cover_image.medium = <<"ol/dune/M">>,
              !.cover_image.large = <<"ol/dune/L">>]
      [] source = "GoogleBooks" /\ isbn = "9781534431003" ->
           [MetadataDefault EXCEPT
              !.isbn10 = <<"1534431004">>,
              !.isbn13 = <<"9781534431003">>,
              !.title = <<"This Is How You Lose the Time War">>,
              !.author = <<"Amal El-Mohtar", "Max Gladstone">>,
              !.description = <<"Two time-traveling agents">>,
              !.publication_date = <<"2020-03-17">>]
      [] source = "GoogleBooks" /\ isbn = "9780765326355" ->
           [MetadataDefault EXCEPT
              !.isbn13 = <<"9780765326355">>,
              !.title = <<"The Way of Kings">>,
              !.publisher = <<"Tor Books">>,
              !.publication_date = <<"2010-08-31">>]
      [] source = "OpenLibrary" /\ isbn = "9780765326355" ->
           [MetadataDefault EXCEPT
              !.isbn13 = <<"9780765326355">>,
              !.title = <<"The Way of Kings", "Way of Kings">>,
              !.publisher = <<"Tor">>,
              !.page_count = <<"1007">>,
              !.tag = <<"fantasy">>]
      [] OTHER -> MetadataDefault

\* ReconError::Connection(reqwest::Error): both the request (reqwest::get)
\* and the decoding of the body (.json()) are mapped to it.  pos tells the
\* error values of two requests apart.
ConnectionError(source, isbn, pos) ==
    [kind |-> "Connection", source |-> source, isbn |-> isbn, pos |-> pos]

\* What GoogleBooks::from_isbn / OpenLibrary::from_isbn can return.
ProviderOutcomes(source, isbn, pos) ==
    {Ok(ProviderRecord(source, isbn)), Err(ConnectionError(source, isbn, pos))}

\* Candidate lists a provider's from_description can return: at most three
\* parsed identifiers, in result order.
SampleCandidates ==
    {<<>>,
     <<"9780765326355">>,
     <<"9781534431003", "9780441013593">>,
     <<"9780765326355", "9780441013593", "9781534431003">>}

\* What GoogleBooks::from_description / OpenLibrary::from_description can return.
SearchOutcomes(source, description) ==
    {Ok(c) : c \in SampleCandidates}
        \cup {Err(ConnectionError(source, description, 0))}

-----------------------------------------------------------------------------
(* Futures: join_all, the fold of from_isbn, the flatten of                *)
(* from_description                                                        *)

\* A future that has not completed / that completed with output out.
Pending == [st |-> "pending"]

Ready(out) == [st |-> "ready", out |-> out]

IsReady(t) == t.st = "ready"

\* A join that is over as soon as one of its futures has completed (the
\* semantics of a select).
AnyReady(ts) == \E i \in DOMAIN ts : IsReady(ts[i])

\* A join that is over when every future has completed with an Ok.
AllReadyAndOk(ts) == \A i \in DOMAIN ts : IsReady(ts[i]) /\ IsOk(ts[i].out)

\* A join that is over as soon as one future has completed with an Err, or
\* all have completed (the semantics of try_join_all).
AllReadyOrOneFailed(ts) ==
    \/ \A i \in DOMAIN ts : IsReady(ts[i])
    \/ \E i \in DOMAIN ts : IsReady(ts[i]) /\ IsErr(ts[i].out)

\* join_all(futures).await completes when every future has completed.
AllReady(ts) == \A i \in DOMAIN ts : IsReady(ts[i])

RECURSIVE OutputsFrom(_, _)
OutputsFrom(ts, i) ==
    IF i > Len(ts) THEN <<>>
    ELSE IF IsReady(ts[i]) THEN <<ts[i].out>> \o OutputsFrom(ts, i + 1)
         ELSE OutputsFrom(ts, i + 1)

\* The Vec join_all resolves to: the futures' outputs, in the order of the
\* futures (not of their completion).
JoinAll(ts) == OutputsFrom(ts, 1)

RECURSIVE FoldSkippingErrors(_, _, _)
\* The loop with `if let Ok(m) = m` in place of `m?`.
FoldSkippingErrors(metadata, list, i) ==
    IF i > Len(list) THEN Ok(metadata)
    ELSE IF IsOk(list[i])
         THEN FoldSkippingErrors(Add(metadata, list[i].val), list, i + 1)
         ELSE FoldSkippingErrors(metadata, list, i + 1)

RECURSIVE FoldOverwriting(_, _, _)
\* The loop with `metadata = m?` in place of `metadata = metadata + m?`.
FoldOverwriting(metadata, list, i) ==
    IF i > Len(list) THEN Ok(metadata)
    ELSE IF IsOk(list[i])
         THEN FoldOverwriting(list[i].val, list, i + 1)
         ELSE Err(list[i].err)

RECURSIVE FoldKeepingLastErr(_, _, _)
\* The loop going on after an Err and returning the last Err met.
FoldKeepingLastErr(metadata, list, i) ==
    IF i > Len(list) THEN Ok(metadata)
    ELSE IF IsOk(list[i])
         THEN FoldKeepingLastErr(Add(metadata, list[i].val), list, i + 1)
         ELSE LET rest == FoldKeepingLastErr(metadata, list, i + 1)
              IN  IF IsErr(rest) THEN rest ELSE Err(list[i].err)

RECURSIVE FoldFrom(_, _, _)
\* from_isbn's loop `for m in metadata_list { metadata = metadata + m?; }`
\* from element i on, then `Ok(metadata)`; `?` returns the first Err met.
FoldFrom(metadata, list, i) ==
    IF i > Len(list) THEN Ok(metadata)
    ELSE IF IsOk(list[i])
         THEN FoldFrom(Add(metadata, list[i].val), list, i + 1)
         ELSE Err(list[i].err)

\* What from_isbn returns once join_all has resolved to metadata_list.
FromIsbnReturn(metadata_list) == FoldFrom(MetadataDefault, metadata_list, 1)

RECURSIVE FlattenFrom(_, _)
\* metadata_list.into_iter().flatten().collect(): a Result iterates over its
\* Ok value and over nothing when it is an Err.
FlattenFrom(list, i) ==
    IF i > Len(list) THEN <<>>
    ELSE IF IsOk(list[i]) THEN <<list[i].val>> \o FlattenFrom(list, i + 1)
         ELSE FlattenFrom(list, i + 1)

\* The records of all identifiers folded into a single record, in place of
\* `metadata_list.into_iter().flatten().collect()`.
FromDescriptionReturnMerged(metadata_list) ==
    LET r == FoldFrom(MetadataDefault, metadata_list, 1)
    IN  IF IsOk(r) THEN Ok(<<r.val>>) ELSE r

\* A from_description that takes an empty list of records for a failure.
FromDescriptionReturnSome(metadata_list) ==
    IF metadata_list = <<>> THEN Err([kind |-> "Message", error |-> "no result"])
    ELSE Ok(FlattenFrom(metadata_list, 1))

\* What from_description returns once its join_all has resolved.
FromDescriptionReturn(metadata_list) == Ok(FlattenFrom(metadata_list, 1))

\* `...await.unwrap_or_default()` in place of `...await?`.
TrySearchOrDefault(r) ==
    [returns |-> FALSE, isbns |-> IF IsOk(r) THEN r.val ELSE <<>>]

\* `description_from_source(search, description).await?`: an Err returns
\* from from_description, an Ok gives the identifiers.
TrySearch(r) ==
    IF IsOk(r) THEN [returns |-> FALSE, isbns |-> r.val]
    ELSE [returns |-> TRUE, isbns |-> <<>>]

-----------------------------------------------------------------------------
(* Spec: one call of Metadata::from_isbn or Metadata::from_description     *)

\* Provider lists of at most MaxSources sources, repetitions allowed.
SourceLists == UNION {[1..n -> Sources] : n \in 0..MaxSources}

CallInputs ==
    {[entry |-> "from_isbn", sources |-> s, isbn |-> i,
      search |-> NoArg, description |-> NoArg] :
        s \in SourceLists, i \in SampleIsbns}
    \cup
    {[entry |-> "from_description", sources |-> s, isbn |-> NoArg,
      search |-> p, description |-> SampleDescription] :
        s \in SourceLists, p \in Sources}

NoCall ==
    [entry |-> NoArg, sources |-> <<>>, isbn |-> NoArg,
     search |-> NoArg, description |-> NoArg]

FlowIdle ==
    /\ call = NoCall
    /\ pc = "idle"
    /\ searchOut = NoResult
    /\ isbns = <<>>
    /\ task = <<>>
    /\ subflow = <<>>
    /\ result = NoResult
    /\ overtaken = FALSE
    /\ firstFailure = NoResult
    /\ fetches = 0

FlowStart ==
    /\ call \in CallInputs
    /\ pc = "call"
    /\ searchOut = NoResult
    /\ isbns = <<>>
    /\ task = <<>>
    /\ subflow = <<>>
    /\ result = NoResult
    /\ overtaken = FALSE
    /\ firstFailure = NoResult
    /\ fetches = 0

\* isbn_from_source reaches unimplemented!() or todo!() for some source of
\* the list.
HasUnimplemented(sources) == \E i \in DOMAIN sources : sources[i] \notin Implemented

\* The requests one from_isbn sends twice over: each provider call repeated
\* once.
RequestsOfFromIsbnRetried(sources) == 2 * Len(sources)

\* The requests one from_isbn sends when its join_all is first polled: each
\* isbn_from_source future calls its provider's from_isbn, which awaits one
\* reqwest::get.
RequestsOfFromIsbn(sources) == Len(sources)

\* The requests sent before the panic: the first from_isbn polls its
\* isbn_from_source futures in list order up to the first source without
\* provider.
SentBeforePanic(sources) ==
    LET first == CHOOSE i \in DOMAIN sources :
                    /\ sources[i] \notin Implemented
                    /\ \A j \in 1..(i - 1) : sources[j] \in Implemented
    IN  first - 1

\* The first poll of join_all over one from_isbn future per identifier:
\* each from_isbn builds one isbn_from_source future per source and polls
\* them in order through its own join_all.  A source without provider
\* panics when polled; the others send their request and are pending.
LaunchSubflows(ids) ==
    IF ids # <<>> /\ HasUnimplemented(call.sources)
    THEN /\ pc' = "panicked"
         /\ result' = Panicked
         /\ isbns' = ids
         /\ fetches' = fetches + SentBeforePanic(call.sources)
         /\ UNCHANGED <<task, subflow>>
    ELSE /\ pc' = "join"
         /\ isbns' = ids
         /\ task' = [k \in DOMAIN ids |-> [i \in DOMAIN call.sources |-> Pending]]
         /\ subflow' = [k \in DOMAIN ids |-> Pending]
         /\ fetches' = fetches + Len(ids) * RequestsOfFromIsbn(call.sources)
         /\ UNCHANGED result

\* Metadata::from_isbn(sources, isbn) is called and polled for the first time.
CallFromIsbn ==
    /\ pc = "call"
    /\ call.entry = "from_isbn"
    /\ LaunchSubflows(<<call.isbn>>)
    /\ UNCHANGED <<call, searchOut, overtaken, firstFailure>>
    /\ UNCHANGED notFlowVars

\* Metadata::from_description(search, sources, description) is called:
\* description_from_source is polled; it panics for a search source without
\* provider and otherwise sends the search request.
CallFromDescription ==
    /\ pc = "call"
    /\ call.entry = "from_description"
    /\ IF call.search \in Implemented
       THEN pc' = "search" /\ fetches' = fetches + 1 /\ UNCHANGED result
       ELSE pc' = "panicked" /\ result' = Panicked /\ UNCHANGED fetches
    /\ UNCHANGED <<call, searchOut, isbns, task, subflow, overtaken, firstFailure>>
    /\ UNCHANGED notFlowVars

\* The search request completes.  On Err, `?` returns it from
\* from_description; on Ok the from_isbn futures are built and join_all
\* polls them.
SearchCompletes ==
    /\ pc = "search"
    /\ \E r \in SearchOutcomes(call.search, call.description) :
          /\ searchOut' = r
          /\ IF TrySearch(r).returns
             THEN /\ result' = r
                  /\ pc' = "done"
                  /\ UNCHANGED <<isbns, task, subflow, fetches>>
             ELSE LaunchSubflows(TrySearch(r).isbns)
    /\ UNCHANGED <<call, overtaken, firstFailure>>
    /\ UNCHANGED notFlowVars

\* A request to a source listed before sources[i] is still pending in
\* sub-flow k.
PendingBefore(k, i) == \E j \in 1..(i - 1) : ~IsReady(task[k][j])

\* The request of sub-flow k to sources[i] completes: the provider's
\* from_isbn returns Ok(record) or Err(Connection).
FetchCompletes ==
    /\ pc = "join"
    /\ \E k \in DOMAIN task : \E i \in DOMAIN task[k] :
          /\ ~IsReady(task[k][i])
          /\ ~IsReady(subflow[k])
          /\ \E r \in ProviderOutcomes(call.sources[i], isbns[k], i) :
                /\ task' = [task EXCEPT ![k][i] = Ready(r)]
                /\ firstFailure' =
                      IF call.entry = "from_isbn" /\ IsErr(r) /\ firstFailure = NoResult
                      THEN r ELSE firstFailure
          /\ overtaken' =
                (overtaken \/ (call.entry = "from_isbn" /\ PendingBefore(k, i)))
    /\ UNCHANGED <<call, pc, searchOut, isbns, subflow, result, fetches>>
    /\ UNCHANGED notFlowVars

\* The join_all of sub-flow k resolves and from_isbn runs its loop and
\* returns.  Called directly, its return value is the call's result.
FromIsbnCompletes ==
    /\ pc = "join"
    /\ \E k \in DOMAIN subflow :
          /\ ~IsReady(subflow[k])
          /\ AllReady(task[k])
          /\ LET r == FromIsbnReturn(JoinAll(task[k]))
             IN  /\ subflow' = [subflow EXCEPT ![k] = Ready(r)]
                 /\ IF call.entry = "from_isbn"
                    THEN result' = r /\ pc' = "done"
                    ELSE UNCHANGED <<result, pc>>
    /\ UNCHANGED <<call, searchOut, isbns, task, overtaken, firstFailure, fetches>>
    /\ UNCHANGED notFlowVars

\* The join_all of from_description resolves; the results are flattened
\* and returned.
FromDescriptionCompletes ==
    /\ pc = "join"
    /\ call.entry = "from_description"
    /\ AllReady(subflow)
    /\ result' = FromDescriptionReturn(JoinAll(subflow))
    /\ pc' = "done"
    /\ UNCHANGED <<call, searchOut, isbns, task, subflow, overtaken, firstFailure,
                   fetches>>
    /\ UNCHANGED notFlowVars

-----------------------------------------------------------------------------
(* SpecSearch: the identifier-search decoders                              *)
(* GoogleBooks::from_description and OpenLibrary::from_description, from   *)
(* the decoded response body to the returned candidate list                *)

\* Most result items in one search response.
MaxItems == 5

\* `isbns.truncate(3); // first 3 results` of each provider.
GoogleBooksFirstResults == 3

OpenLibraryFirstResults == 3

\* Option<T>.
None == [opt |-> "none"]

Some(v) == [opt |-> "some", val |-> v]

IsSome(o) == o.opt = "some"

\* ReconError::ISBNParse / the isbn2 parse error for string s.
ISBNParseError(s) == [kind |-> "ISBNParse", input |-> s]

\* Isbn10::from_str on the identifier strings of the samples: hyphens are
\* removed, ten characters and the check digit are required; the value is
\* the identifier's digits.
Isbn10FromStr(s) ==
    CASE s = "0441013597" -> Ok("0441013597")
      [] s = "0-7653-2635-3" -> Ok("0765326353")
      [] s = "1534431004" -> Ok("1534431004")
      [] OTHER -> Err(ISBNParseError(s))

\* Isbn13::from_str, likewise with thirteen digits.
Isbn13FromStr(s) ==
    CASE s = "9780765326355" -> Ok("9780765326355")
      [] s = "978-0-441-01359-3" -> Ok("9780441013593")
      [] s = "9780441013593" -> Ok("9780441013593")
      [] s = "9781534431003" -> Ok("9781534431003")
      [] OTHER -> Err(ISBNParseError(s))

\* Isbn::from_str: an ISBN-10 or an ISBN-13.
IsbnFromStr(s) ==
    IF IsOk(Isbn10FromStr(s)) THEN Isbn10FromStr(s) ELSE Isbn13FromStr(s)

\* Result items of a GoogleBooks search: the industryIdentifiers list of each
\* volumeInfo, a list of string maps.
GoogleBooksItems ==
    {<<[type |-> "ISBN_13", identifier |-> "9780765326355"],
       [type |-> "ISBN_10", identifier |-> "0-7653-2635-3"]>>,
     <<[type |-> "ISBN_10", identifier |-> "0441013597"],
       [type |-> "ISBN_13", identifier |-> "978-0-441-01359-3"]>>,
     <<[type |-> "ISBN_13", identifier |-> "9781534431003"]>>,
     <<[type |-> "OTHER", identifier |-> "OCLC:1105199589"]>>,
     <<[type |-> "OTHER"], [type |-> "ISBN_10", identifier |-> "1534431004"]>>,
     <<>>}

\* Result docs of an OpenLibrary search: the optional isbn list of each doc.
OpenLibraryDocs ==
    {Some(<<"9780765326355", "0-7653-2635-3">>),
     Some(<<"0441013597", "9780441013593">>),
     Some(<<"978153443100X", "9781534431003">>),
     Some(<<>>),
     None}

SearchItems(source) ==
    IF source = "GoogleBooks" THEN GoogleBooksItems ELSE OpenLibraryDocs

\* `info.volume_info.industry_identifiers.get(0)` then
\* `h.map(|h| h.get("identifier"))`, flattened twice: the identifier of the
\* first map of the item, if the item has a map and the map has the key.
GoogleBooksFirstIdentifier(info) ==
    IF Len(info) = 0 THEN None
    ELSE IF "identifier" \in DOMAIN info[1] THEN Some(info[1].identifier)
         ELSE None

\* `h.isbn.as_ref().map(|v| v.get(0))`, flattened twice: the first string
\* of the doc's isbn list, if the doc has a non-empty list.
OpenLibraryFirstIdentifier(h) ==
    IF ~IsSome(h) THEN None
    ELSE IF Len(h.val) = 0 THEN None
         ELSE Some(h.val[1])

FirstIdentifier(source, item) ==
    IF source = "GoogleBooks" THEN GoogleBooksFirstIdentifier(item)
    ELSE OpenLibraryFirstIdentifier(item)

RECURSIVE FirstIdentifiers(_, _, _)
\* `.iter().map(..).flatten().flatten().collect::<Vec<_>>()`: one identifier
\* string per item that has one, in item order.
FirstIdentifiers(source, items, i) ==
    IF i > Len(items) THEN <<>>
    ELSE LET o == FirstIdentifier(source, items[i])
         IN  (IF IsSome(o) THEN <<o.val>> ELSE <<>>)
                 \o FirstIdentifiers(source, items, i + 1)

\* The list left whole.
TruncateNothing(v, len) == v

\* Vec::truncate(len): keeps the first len elements.
Truncate(v, len) == IF Len(v) > len THEN SubSeq(v, 1, len) ELSE v

RECURSIVE ParsedIsbns(_, _)
\* The loop `isbn_list.push(Isbn::from_str(isbn))` followed by
\* `.filter(|isbn| isbn.is_ok()).map(|isbn| isbn.unwrap())`.
ParsedIsbns(strings, i) ==
    IF i > Len(strings) THEN <<>>
    ELSE LET r == IsbnFromStr(strings[i])
         IN  (IF IsOk(r) THEN <<r.val>> ELSE <<>>) \o ParsedIsbns(strings, i + 1)

FirstResults(source) ==
    IF source = "GoogleBooks" THEN GoogleBooksFirstResults
    ELSE OpenLibraryFirstResults

\* The identifier strings parsed first and the parsed list truncated: the
\* first three identifiers that parse.
DecodeCandidatesParsedFirst(source, items) ==
    Ok(Truncate(ParsedIsbns(FirstIdentifiers(source, items, 1), 1),
                FirstResults(source)))

\* What the provider's from_description returns for a decoded response.
DecodeCandidates(source, items) ==
    Ok(ParsedIsbns(Truncate(FirstIdentifiers(source, items, 1),
                            FirstResults(source)), 1))

NoResponse == [source |-> NoArg, items |-> <<>>]

SearchStart ==
    /\ response = NoResponse
    /\ candidates = NoResult

\* The search request to a provider is answered: the body is being read.
ResponseArrives ==
    /\ response = NoResponse
    /\ \E source \in Implemented : response' = [source |-> source, items |-> <<>>]
    /\ UNCHANGED candidates
    /\ UNCHANGED notSearchVars

\* One more result item is read from the body.
ItemArrives ==
    /\ response.source # NoArg
    /\ candidates = NoResult
    /\ Len(response.items) < MaxItems
    /\ \E item \in SearchItems(response.source) :
          response' = [response EXCEPT !.items = Append(@, item)]
    /\ UNCHANGED candidates
    /\ UNCHANGED notSearchVars

\* The body is complete: from_description extracts the candidates and
\* returns.
CandidatesReturned ==
    /\ response.source # NoArg
    /\ candidates = NoResult
    /\ candidates' = DecodeCandidates(response.source, response.items)
    /\ UNCHANGED response
    /\ UNCHANGED notSearchVars

-----------------------------------------------------------------------------
(* util::translater: from the values serde decoded to the fields of        *)
(* Metadata                                                                 *)

\* hashset_fallback: Some(set) is the set, None the empty set.
hashset_fallback(value) == IF IsSome(value) THEN value.val ELSE <<>>

\* optional_to_hashset: Some(x) is the set of x alone, None the empty set.
optional_to_hashset(value) == IF IsSome(value) THEN <<value.val>> ELSE <<>>

\* Iterator::collect into a HashSet.
CollectHashSet(list) == HashSetExtend(<<>>, list)

\* The identifier strings of the maps of the list whose "type" is type:
\* `.filter(|h| h.get("type") == Some(type).as_ref())`,
\* `.map(|h| h.get("identifier")).flatten()`.
TypedIdentifiers(list, type) ==
    LET typed == SelectSeq(list,
                   LAMBDA h : "type" \in DOMAIN h /\ h.type = type
                                /\ "identifier" \in DOMAIN h)
    IN  [i \in DOMAIN typed |-> typed[i].identifier]

\* googlebooks_isbn10: the identifiers of type ISBN_10, parsed,
\* `.flatten() // discarding Err`, collected.
googlebooks_isbn10(hashmap_vec) ==
    hashset_fallback(
        IF IsSome(hashmap_vec)
        THEN LET strs == TypedIdentifiers(hashmap_vec.val, "ISBN_10")
             IN  Some(CollectHashSet(
                        FlattenFrom([i \in DOMAIN strs |-> Isbn10FromStr(strs[i])], 1)))
        ELSE None)

\* googlebooks_isbn13: the same for the type ISBN_13.
googlebooks_isbn13(hashmap_vec) ==
    hashset_fallback(
        IF IsSome(hashmap_vec)
        THEN LET strs == TypedIdentifiers(hashmap_vec.val, "ISBN_13")
             IN  Some(CollectHashSet(
                        FlattenFrom([i \in DOMAIN strs |-> Isbn13FromStr(strs[i])], 1)))
        ELSE None)

\* str::starts_with on the keys of the samples.
StartsWith(k, prefix) ==
    <<k, prefix>> \in {<<"isbn_10", "isbn_10">>, <<"isbn_13", "isbn_13">>}

RECURSIVE ValuesOfKeys(_, _, _)
\* `.iter().filter(|(k, _)| k.starts_with(prefix)).map(|(_, v)| v).flatten()`:
\* the strings listed under the keys that start with prefix.  The map is
\* given as its list of entries; the order of iteration of a HashMap is
\* unspecified and the result is collected into a set.
ValuesOfKeys(entries, prefix, i) ==
    IF i > Len(entries) THEN <<>>
    ELSE (IF StartsWith(entries[i].key, prefix) THEN entries[i].values ELSE <<>>)
            \o ValuesOfKeys(entries, prefix, i + 1)

\* openlibrary_isbn10: the strings under "isbn_10", parsed,
\* `.flatten() // discarding Err`, collected.
openlibrary_isbn10(hashmap_vec) ==
    hashset_fallback(
        IF IsSome(hashmap_vec)
        THEN LET strs == ValuesOfKeys(hashmap_vec.val, "isbn_10", 1)
             IN  Some(CollectHashSet(
                        FlattenFrom([i \in DOMAIN strs |-> Isbn10FromStr(strs[i])], 1)))
        ELSE None)

\* openlibrary_isbn13: the same for "isbn_13".
openlibrary_isbn13(hashmap_vec) ==
    hashset_fallback(
        IF IsSome(hashmap_vec)
        THEN LET strs == ValuesOfKeys(hashmap_vec.val, "isbn_13", 1)
             IN  Some(CollectHashSet(
                        FlattenFrom([i \in DOMAIN strs |-> Isbn13FromStr(strs[i])], 1)))
        ELSE None)

\* A date string is the sequence of its characters; a month name or another
\* run of letters is one element.
Digits == {"0", "1", "2", "3", "4", "5", "6", "7", "8", "9"}

DigitValue(c) ==
    CASE c = "0" -> 0 [] c = "1" -> 1 [] c = "2" -> 2 [] c = "3" -> 3
      [] c = "4" -> 4 [] c = "5" -> 5 [] c = "6" -> 6 [] c = "7" -> 7
      [] c = "8" -> 8 [] c = "9" -> 9

\* chrono's month names, long and short (the ones the samples use).
MonthNames == {"February", "Feb", "May", "July", "Jul", "December", "Dec"}

MonthNumber(name) ==
    CASE name \in {"February", "Feb"} -> 2
      [] name = "May" -> 5
      [] name \in {"July", "Jul"} -> 7
      [] name \in {"December", "Dec"} -> 12

\* chrono::format::ParseError.
ChronoError(kind) == [kind |-> "DateParse", error |-> kind]

\* chrono::format::Item, as StrftimeItems yields them.
Space == [item |-> "Space"]

Literal(ch) == [item |-> "Literal", ch |-> ch]

Numeric(f, width) == [item |-> "Numeric", f |-> f, width |-> width]

LongMonthName == [item |-> "LongMonthName"]

\* StrftimeItems::new(fmt) for the formats of the program.
StrftimeItems(fmt) ==
    CASE fmt = "%B %d, %Y" ->
           <<LongMonthName, Space, Numeric("day", 2), Literal(","), Space,
             Numeric("year", 4)>>
      [] fmt = "%Y-%m-%d" ->
           <<Numeric("year", 4), Literal("-"), Numeric("month", 2), Literal("-"),
             Numeric("day", 2)>>
      [] fmt = "%B, %d %Y" ->
           <<LongMonthName, Literal(","), Space, Numeric("day", 2), Space,
             Numeric("year", 4)>>

RECURSIVE TrimStart(_)
\* str::trim_start: the leading whitespace removed.
TrimStart(s) ==
    IF s # <<>> /\ s[1] = " " THEN TrimStart(Tail(s)) ELSE s

RECURSIVE LeadingDigits(_, _)
\* How many of the first max characters of s are digits, counted from the
\* start up to the first character that is not one.
LeadingDigits(s, max) ==
    IF max = 0 \/ s = <<>> THEN 0
    ELSE IF s[1] \in Digits THEN 1 + LeadingDigits(Tail(s), max - 1)
         ELSE 0

RECURSIVE NumberValue(_, _)
\* The number the first n characters of s write.
NumberValue(s, n) ==
    IF n = 0 THEN 0 ELSE NumberValue(s, n - 1) * 10 + DigitValue(s[n])

\* chrono::format::Parsed with no field set.
ParsedNothing == [year |-> None, month |-> None, day |-> None]

RECURSIVE ParseItems(_, _, _, _)
\* chrono::format::parse: the items consume the string from the left.  A
\* Space item skips any whitespace, a Literal wants its character, a Numeric
\* skips whitespace and takes one to width digits, a month name wants a
\* name; what is left over after the last item is an error.
ParseItems(s, items, i, parsed) ==
    IF i > Len(items)
    THEN IF s = <<>> THEN Ok(parsed) ELSE Err(ChronoError("TooLong"))
    ELSE LET it == items[i]
         IN  CASE it.item = "Space" -> ParseItems(TrimStart(s), items, i + 1, parsed)
               [] it.item = "Literal" ->
                    IF s = <<>> THEN Err(ChronoError("TooShort"))
                    ELSE IF s[1] # it.ch THEN Err(ChronoError("Invalid"))
                    ELSE ParseItems(Tail(s), items, i + 1, parsed)
               [] it.item = "Numeric" ->
                    LET t == TrimStart(s)
                        n == LeadingDigits(t, it.width)
                    IN  IF t = <<>> THEN Err(ChronoError("TooShort"))
                        ELSE IF n = 0 THEN Err(ChronoError("Invalid"))
                        ELSE ParseItems(SubSeq(t, n + 1, Len(t)), items, i + 1,
                                        [parsed EXCEPT ![it.f] = Some(NumberValue(t, n))])
               [] it.item = "LongMonthName" ->
                    IF s = <<>> THEN Err(ChronoError("TooShort"))
                    ELSE IF s[1] \notin MonthNames THEN Err(ChronoError("Invalid"))
                    ELSE ParseItems(Tail(s), items, i + 1,
                                    [parsed EXCEPT !.month = Some(MonthNumber(s[1]))])

\* The days of a month of the proleptic Gregorian calendar.
DaysInMonth(year, month) ==
    IF month = 2
    THEN IF year % 4 = 0 /\ (year % 100 # 0 \/ year % 400 = 0) THEN 29 ELSE 28
    ELSE IF month \in {4, 6, 9, 11} THEN 30 ELSE 31

\* Parsed::to_naive_date: year, month and day must be set and be a date of
\* the calendar.
ToNaiveDate(parsed) ==
    IF ~(IsSome(parsed.year) /\ IsSome(parsed.month) /\ IsSome(parsed.day))
    THEN Err(ChronoError("NotEnough"))
    ELSE IF parsed.month.val \notin 1..12
            \/ parsed.day.val \notin 1..DaysInMonth(parsed.year.val, parsed.month.val)
         THEN Err(ChronoError("OutOfRange"))
         ELSE Ok([year |-> parsed.year.val, month |-> parsed.month.val,
                  day |-> parsed.day.val])

\* NaiveDate::parse_from_str(s, fmt).
ParseFromStr(s, fmt) ==
    LET r == ParseItems(s, StrftimeItems(fmt), 1, ParsedNothing)
    IN  IF IsOk(r) THEN ToNaiveDate(r.val) ELSE r

\* `let possible_formats = ["%B %d, %Y", "%Y-%m-%d", "%B, %d %Y"];`
possible_formats == <<"%B %d, %Y", "%Y-%m-%d", "%B, %d %Y">>

\* The outcome of the last format alone, the earlier ones being overwritten.
publication_date_last_format(s) ==
    IF IsSome(s)
    THEN LET r == ParseFromStr(s.val, possible_formats[Len(possible_formats)])
         IN  IF IsOk(r) THEN <<r.val>> ELSE <<>>
    ELSE <<>>

\* publication_date: the string is parsed with every format; the dates of
\* the formats that parse are collected into a set, the failures are
\* filtered out.  No string, no date.
publication_date(s) ==
    IF IsSome(s)
    THEN CollectHashSet(
            FlattenFrom([i \in DOMAIN possible_formats |->
                            ParseFromStr(s.val, possible_formats[i])], 1))
    ELSE <<>>

-----------------------------------------------------------------------------
(* SpecTranslate: one key of a provider object, from the value serde       *)
(* decoded for it to the fields of the record                              *)

\* Most identifier entries under the identifier key of one object.
MaxIdentifiers == 3

\* Entries of GoogleBooks' "industryIdentifiers": string maps.
GoogleBooksIdentifiers ==
    {[type |-> "ISBN_13", identifier |-> "9780441013593"],
     [type |-> "ISBN_13", identifier |-> "978-0-441-01359-3"],
     [type |-> "ISBN_10", identifier |-> "0441013597"],
     [type |-> "ISBN_10", identifier |-> "044101359X"],
     [type |-> "ISBN_13", identifier |-> "0441013597"],
     [type |-> "OTHER", identifier |-> "OCLC:1105199589"]}

\* Entries of OpenLibrary's "identifiers": a key and its list of strings.
OpenLibraryIdentifiers ==
    {[key |-> "isbn_10", values |-> <<"0441013597">>],
     [key |-> "isbn_10", values |-> <<"0441013597", "044101359X">>],
     [key |-> "isbn_13", values |-> <<"9780441013593">>],
     [key |-> "isbn_13", values |-> <<"978044101359", "9780441013593">>],
     [key |-> "lccn", values |-> <<"2005047836">>]}

\* Date strings: "2019-07-16", "July 16, 2019", "July, 16 2019",
\* "Jul 4,2019", "February 29, 2020", "2019-02-30", "2019-7-4", "2019",
\* "July 2019", "16 July 2019", "not a date", "".
SampleDates ==
    {<<"2", "0", "1", "9", "-", "0", "7", "-", "1", "6">>,
     <<"July", " ", "1", "6", ",", " ", "2", "0", "1", "9">>,
     <<"July", ",", " ", "1", "6", " ", "2", "0", "1", "9">>,
     <<"Jul", " ", "4", ",", "2", "0", "1", "9">>,
     <<"February", " ", "2", "9", ",", " ", "2", "0", "2", "0">>,
     <<"2", "0", "1", "9", "-", "0", "2", "-", "3", "0">>,
     <<"2", "0", "1", "9", "-", "7", "-", "4">>,
     <<"2", "0", "1", "9">>,
     <<"July", " ", "2", "0", "1", "9">>,
     <<"1", "6", " ", "July", " ", "2", "0", "1", "9">>,
     <<"not", " ", "a", " ", "date">>,
     <<>>}

\* The key of each provider's object that carries the identifiers / the
\* publication date.
IdentifiersKey(source) ==
    IF source = "GoogleBooks" THEN "industryIdentifiers" ELSE "identifiers"

DateKey(source) ==
    IF source = "GoogleBooks" THEN "publishedDate" ELSE "publish_date"

IdentifierEntries(source) ==
    IF source = "GoogleBooks" THEN GoogleBooksIdentifiers ELSE OpenLibraryIdentifiers

NoField == [source |-> NoArg, key |-> NoArg, value |-> None]

TranslateStart ==
    /\ field = NoField
    /\ translated = NoResult

\* visit_map ends with no identifiers key met (None), or meets the key and
\* starts to read its value.
IdentifiersKeyDecoded ==
    /\ field = NoField
    /\ \E source \in Implemented, v \in {None, Some(<<>>)} :
          field' = [source |-> source, key |-> IdentifiersKey(source), value |-> v]
    /\ UNCHANGED translated
    /\ UNCHANGED notTranslateVars

\* One more entry of the identifiers value is read.  The keys of
\* OpenLibrary's map are distinct.
IdentifierDecoded ==
    /\ field.key \in {"industryIdentifiers", "identifiers"}
    /\ IsSome(field.value)
    /\ translated = NoResult
    /\ Len(field.value.val) < MaxIdentifiers
    /\ \E e \in IdentifierEntries(field.source) :
          /\ field.source = "OpenLibrary" =>
                \A i \in DOMAIN field.value.val : field.value.val[i].key # e.key
          /\ field' = [field EXCEPT !.value = Some(Append(field.value.val, e))]
    /\ UNCHANGED translated
    /\ UNCHANGED notTranslateVars

\* visit_map ends with no date key met (None), or with its string.
DateKeyDecoded ==
    /\ field = NoField
    /\ \E source \in Implemented, v \in {None} \cup {Some(d) : d \in SampleDates} :
          field' = [source |-> source, key |-> DateKey(source), value |-> v]
    /\ UNCHANGED translated
    /\ UNCHANGED notTranslateVars

\* The fields of the record that visit_map builds from the value.
TranslateField(f) ==
    CASE f.key = "industryIdentifiers" ->
           [isbn10 |-> googlebooks_isbn10(f.value),
            isbn13 |-> googlebooks_isbn13(f.value)]
      [] f.key = "identifiers" ->
           [isbn10 |-> openlibrary_isbn10(f.value),
            isbn13 |-> openlibrary_isbn13(f.value)]
      [] f.key \in {"publishedDate", "publish_date"} ->
           [publication_date |-> publication_date(f.value)]

\* visit_map builds the record: the translater of the key is applied.
Translate ==
    /\ field # NoField
    /\ translated = NoResult
    /\ translated' = Ok(TranslateField(field))
    /\ UNCHANGED field
    /\ UNCHANGED notTranslateVars

-----------------------------------------------------------------------------
(* The other translaters                                                   *)

\* empty(): the empty set.
empty == <<>>

\* number / string: the value alone, or nothing.
number(n) == optional_to_hashset(n)

string(s) == optional_to_hashset(s)

\* vec: the strings of the list, collected.
vec(v) == hashset_fallback(IF IsSome(v) THEN Some(CollectHashSet(v.val)) ELSE None)

\* `.map(|mut h| h.remove(field)).flatten()`: the value each map of the
\* list holds under field, for the maps that have it.
FieldOfEach(list, f) ==
    LET having == SelectSeq(list, LAMBDA h : f \in DOMAIN h)
    IN  [i \in DOMAIN having |-> having[i][f]]

\* vec_hashmap_field: the values under field, collected.
vec_hashmap_field(vec_hashmap, f) ==
    hashset_fallback(
        IF IsSome(vec_hashmap)
        THEN Some(CollectHashSet(FieldOfEach(vec_hashmap.val, f)))
        ELSE None)

\* `s.split(',')` then `s.trim().replace(" ", "-").to_lowercase()` on each
\* part, for the subject names of the samples.
SplitNormalised(s) ==
    CASE s = "Science fiction" -> <<"science-fiction">>
      [] s = "Fiction, science fiction, general" ->
           <<"fiction", "science-fiction", "general">>
      [] OTHER -> <<s>>

RECURSIVE SplitEach(_, _)
SplitEach(names, i) ==
    IF i > Len(names) THEN <<>>
    ELSE SplitNormalised(names[i]) \o SplitEach(names, i + 1)

\* vec_hashmap_field_split: the values under field, split at the commas and
\* normalised, collected.
vec_hashmap_field_split(vec_hashmap, f) ==
    hashset_fallback(
        IF IsSome(vec_hashmap)
        THEN Some(CollectHashSet(SplitEach(FieldOfEach(vec_hashmap.val, f), 1)))
        ELSE None)

\* `hashmap.get_mut(k).map(|sm| {sm}).unwrap_or_default()`.
CoverOfSize(hashmap, k) == IF k \in DOMAIN hashmap THEN <<hashmap[k]>> ELSE <<>>

\* googlebooks_cover_images: one size class per key of imageLinks.
googlebooks_cover_images(hashmap) ==
    IF IsSome(hashmap)
    THEN [small_thumbnail |-> CoverOfSize(hashmap.val, "smallThumbnail"),
          thumbnail |-> CoverOfSize(hashmap.val, "thumbnail"),
          small |-> CoverOfSize(hashmap.val, "small"),
          medium |-> CoverOfSize(hashmap.val, "medium"),
          large |-> CoverOfSize(hashmap.val, "large"),
          extra_large |-> CoverOfSize(hashmap.val, "extraLarge")]
    ELSE CoverImageDefault

\* openlibrary_cover_images: no thumbnails; one size class per key of cover.
openlibrary_cover_images(hashmap) ==
    IF IsSome(hashmap)
    THEN [small_thumbnail |-> <<>>,
          thumbnail |-> <<>>,
          small |-> CoverOfSize(hashmap.val, "small"),
          medium |-> CoverOfSize(hashmap.val, "medium"),
          large |-> CoverOfSize(hashmap.val, "large"),
          extra_large |-> CoverOfSize(hashmap.val, "extraLarge")]
    ELSE CoverImageDefault

-----------------------------------------------------------------------------
(* SpecDecode: impl Deserialize for GoogleBooks and for OpenLibrary, from  *)
(* the keys of a JSON object to the record                                 *)

\* Most keys in one JSON object.
MaxKeys == 3

\* FieldVisitor::visit_str of each provider: the field a key names.
GoogleBooksField(value) ==
    CASE value = "industryIdentifiers" -> "IndustryIdentifiers"
      [] value = "title" -> "Title"
      [] value = "authors" -> "Authors"
      [] value = "description" -> "Description"
      [] value = "pageCount" -> "PageCount"
      [] value = "publisher" -> "Publisher"
      [] value = "publishedDate" -> "PublishedDate"
      [] value = "categories" -> "Categories"
      [] value = "imageLinks" -> "ImageLinks"
      [] value = "language" -> "Language"
      [] OTHER -> "Ignore"

OpenLibraryField(value) ==
    CASE value = "identifiers" -> "Identifiers"
      [] value = "title" -> "Title"
      [] value = "authors" -> "Authors"
      [] value = "number_of_pages" -> "NumberOfPages"
      [] value = "publishers" -> "Publishers"
      [] value = "publish_date" -> "PublishDate"
      [] value = "subjects" -> "Subjects"
      [] value = "cover" -> "Cover"
      [] OTHER -> "Ignore"

visit_str(source, value) ==
    IF source = "GoogleBooks" THEN GoogleBooksField(value) ELSE OpenLibraryField(value)

\* const FIELDS of each provider, and two keys the providers send that the
\* decoders do not name.
GoogleBooksKeys ==
    {"industryIdentifiers", "title", "authors", "description", "pageCount",
     "publisher", "publishedDate", "categories", "imageLinks", "language"}

OpenLibraryKeys ==
    {"identifiers", "title", "authors", "number_of_pages", "publishers",
     "publish_date", "subjects", "cover"}

OtherKeys(source) ==
    IF source = "GoogleBooks" THEN {"subtitle", "printType"} ELSE {"url", "key"}

ObjectKeys(source) ==
    (IF source = "GoogleBooks" THEN GoogleBooksKeys ELSE OpenLibraryKeys)
        \cup OtherKeys(source)

\* The value the sample object gives each key, as serde decodes it.
GoogleBooksValue(key) ==
    CASE key = "industryIdentifiers" ->
           <<[type |-> "ISBN_13", identifier |-> "9780441013593"],
             [type |-> "ISBN_10", identifier |-> "0441013597"]>>
      [] key = "title" -> "Dune"
      [] key = "authors" -> <<"Frank Herbert">>
      [] key = "description" -> "A desert planet"
      [] key = "pageCount" -> 896
      [] key = "publisher" -> "Ace"
      [] key = "publishedDate" -> <<"2", "0", "0", "5", "-", "0", "8", "-", "0", "2">>
      [] key = "categories" -> <<"Fiction">>
      [] key = "imageLinks" ->
           [smallThumbnail |-> "gb/dune/zoom5", thumbnail |-> "gb/dune/zoom1"]
      [] key = "language" -> "en"
      [] OTHER -> "BOOK"

OpenLibraryValue(key) ==
    CASE key = "identifiers" ->
           <<[key |-> "isbn_10", values |-> <<"0441013597">>],
             [key |-> "isbn_13", values |-> <<"9780441013593">>],
             [key |-> "lccn", values |-> <<"2005047836">>]>>
      [] key = "title" -> "Dune"
      [] key = "authors" -> <<[name |-> "Frank Herbert", url |-> "ol/authors/OL79034A"]>>
      [] key = "number_of_pages" -> 896
      [] key = "publishers" -> <<[name |-> "Ace"]>>
      [] key = "publish_date" -> <<"July", " ", "1", "6", ",", " ", "2", "0", "1", "9">>
      [] key = "subjects" ->
           <<[name |-> "Science fiction", url |-> "ol/subjects/science_fiction"],
             [name |-> "Fiction, science fiction, general"]>>
      [] key = "cover" ->
           [small |-> "ol/dune/S", medium |-> "ol/dune/M", large |-> "ol/dune/L"]
      [] OTHER -> "ol/books/OL7525073M"

ValueOf(source, key) ==
    IF source = "GoogleBooks" THEN GoogleBooksValue(key) ELSE OpenLibraryValue(key)

\* The enum Field of each provider, Ignore apart.
GoogleBooksFields ==
    {"IndustryIdentifiers", "Title", "Authors", "Description", "PageCount",
     "Publisher", "PublishedDate", "Categories", "ImageLinks", "Language"}

OpenLibraryFields ==
    {"Identifiers", "Title", "Authors", "NumberOfPages", "Publishers",
     "PublishDate", "Subjects", "Cover"}

\* `let mut industry_identifiers = None; let mut title = None; ...`
AllNone(source) ==
    [f \in IF source = "GoogleBooks" THEN GoogleBooksFields ELSE OpenLibraryFields
        |-> None]

\* de::Error::duplicate_field(name).
duplicate_field(name) == [kind |-> "JSONParse", error |-> "duplicate_field", field |-> name]

\* de::Error::missing_field(name).
missing_field(name) == [kind |-> "JSONParse", error |-> "missing_field", field |-> name]

\* The check left out: the later value replaces the earlier one.
NeverMet(fields, f) == FALSE

\* `if title.is_some()`: the key named by f was met before.
AlreadyMet(fields, f) == IsSome(fields[f])

\* The value of an ignored key left unread (`_ => {}`): the next key cannot
\* be read.
IgnoredValueUnread(value) == Err([kind |-> "JSONParse", error |-> "syntax"])

\* `A::next_value::<de::IgnoredAny>(&mut map)`: any value is read and
\* discarded.
IgnoredValue(value) == Ok("IgnoredAny")

\* `Metadata { isbn10: translater::googlebooks_isbn10(..), ... }`.
GoogleBooksRecord(fields) ==
    [isbn10 |-> googlebooks_isbn10(fields["IndustryIdentifiers"]),
     isbn13 |-> googlebooks_isbn13(fields["IndustryIdentifiers"]),
     title |-> string(fields["Title"]),
     author |-> vec(fields["Authors"]),
     description |-> string(fields["Description"]),
     page_count |-> number(fields["PageCount"]),
     publisher |-> string(fields["Publisher"]),
     publication_date |-> publication_date(fields["PublishedDate"]),
     language |-> string(fields["Language"]),
     tag |-> vec(fields["Categories"]),
     cover_image |-> googlebooks_cover_images(fields["ImageLinks"])]

\* The record built with the publisher required:
\* `publisher.ok_or_else(|| de::Error::missing_field("publisher"))?`.
GoogleBooksMetadataRequiringPublisher(fields) ==
    IF IsSome(fields["Publisher"]) THEN Ok(GoogleBooksRecord(fields))
    ELSE Err(missing_field("publisher"))

\* `Ok(GoogleBooks(Metadata { .. }))`: no key is required.
GoogleBooksMetadata(fields) == Ok(GoogleBooksRecord(fields))

\* `Ok(OpenLibrary(Metadata { isbn10: ..., ... }))`.
OpenLibraryMetadata(fields) ==
    Ok([isbn10 |-> openlibrary_isbn10(fields["Identifiers"]),
        isbn13 |-> openlibrary_isbn13(fields["Identifiers"]),
        title |-> string(fields["Title"]),
        author |-> vec_hashmap_field(fields["Authors"], "name"),
        description |-> empty,
        page_count |-> number(fields["NumberOfPages"]),
        publisher |-> vec_hashmap_field(fields["Publishers"], "name"),
        publication_date |-> publication_date(fields["PublishDate"]),
        language |-> empty,
        cover_image |-> openlibrary_cover_images(fields["Cover"]),
        tag |-> vec_hashmap_field_split(fields["Subjects"], "name")])

RECURSIVE VisitMap(_, _, _, _)
\* visit_map from key i on: `while let Some(key) = map.next_key()?`.  An
\* ignored key has its value read and discarded; a key met before is a
\* duplicate_field error; otherwise the value is stored.  After the last
\* key the record is built.
VisitMap(source, keys, i, fields) ==
    IF i > Len(keys)
    THEN IF source = "GoogleBooks" THEN GoogleBooksMetadata(fields)
         ELSE OpenLibraryMetadata(fields)
    ELSE LET key == visit_str(source, keys[i])
         IN  IF key = "Ignore"
             THEN LET r == IgnoredValue(ValueOf(source, keys[i]))
                  IN  IF IsErr(r) THEN r ELSE VisitMap(source, keys, i + 1, fields)
             ELSE IF AlreadyMet(fields, key) THEN Err(duplicate_field(keys[i]))
             ELSE VisitMap(source, keys, i + 1,
                           [fields EXCEPT ![key] = Some(ValueOf(source, keys[i]))])

\* GoogleBooks::deserialize / OpenLibrary::deserialize on an object.
Deserialize(source, keys) == VisitMap(source, keys, 1, AllNone(source))

NoObject == [source |-> NoArg, keys |-> <<>>]

\* No object has been received.
DecodeStart ==
    /\ object = NoObject
    /\ decoded = NoResult

\* A provider's object starts to be read.
ObjectArrives ==
    /\ object = NoObject
    /\ \E source \in Implemented : object' = [source |-> source, keys |-> <<>>]
    /\ UNCHANGED decoded
    /\ UNCHANGED notDecodeVars

\* The object has one more key.
KeyArrives ==
    /\ object.source # NoArg
    /\ decoded = NoResult
    /\ Len(object.keys) < MaxKeys
    /\ \E key \in ObjectKeys(object.source) :
          object' = [object EXCEPT !.keys = Append(@, key)]
    /\ UNCHANGED decoded
    /\ UNCHANGED notDecodeVars

\* The object is deserialized.
ObjectDeserialized ==
    /\ object.source # NoArg
    /\ decoded = NoResult
    /\ decoded' = Deserialize(object.source, object.keys)
    /\ UNCHANGED object
    /\ UNCHANGED notDecodeVars

-----------------------------------------------------------------------------
(* SpecFetch: one provider call, GoogleBooks::from_isbn or                 *)
(* OpenLibrary::from_isbn                                                  *)

\* Most book items in the body of one response.
MaxBodyItems == 2

\* ReconError::Connection(reqwest::Error).  The reqwest error is the one of
\* the request (reqwest::get) or the one of the decoding of the body
\* (Response::json).
Connection(e) == [kind |-> "Connection", error |-> e]

\* `reqwest::get(req).await.map_err(ReconError::Connection)?` on a request
\* that fails.
GetFailed == Err(Connection("request"))

\* The book items a body can list: GoogleBooks' items hold a volumeInfo,
\* OpenLibrary's body is an object of books under their bibkeys.  The item
\* is given by the record its Deserialize builds.
BodyItems(source) ==
    {[key |-> i, record |-> ProviderRecord(source, i)] : i \in SampleIsbns}

\* A body that is not JSON, a JSON body of another shape than the one
\* decoded (GoogleBooks: no "items" key, as in {"totalItems": 0}), and a
\* body of the decoded shape with no item yet.
MalformedBody == [json |-> "malformed", items |-> <<>>]

OtherShapeBody == [json |-> "other", items |-> <<>>]

EmptyBody == [json |-> "items", items |-> <<>>]

NoBody == [json |-> NoArg, items |-> <<>>]

\* `.json::<Items>().await.map_err(ReconError::Connection)?` /
\* `.json::<HashMap<String, OpenLibrary>>()...`: the items of a body of the
\* decoded shape, an Err(Connection) for any other body.
JsonItems(body) ==
    IF body.json = "items" THEN Ok(body.items) ELSE Err(Connection("decode"))

\* The orders in which the decoded items can be iterated: a Vec keeps the
\* order of the body, a HashMap has an order of its own.
IterationOrders(source, items) ==
    IF source = "GoogleBooks" THEN {items}
    ELSE {[i \in DOMAIN items |-> items[p[i]]] :
             p \in {q \in [DOMAIN items -> DOMAIN items] :
                       \A i, j \in DOMAIN items : q[i] = q[j] => i = j}}

\* `Vec::remove(0)` in place of `.next()` and `unwrap_or_default()`: a panic
\* when there is no item.
FirstOrPanic(items) ==
    IF items = <<>> THEN Panicked ELSE Ok(items[1].record)

\* `response.items.into_iter().map(|v| v.volume_info.0).next()` /
\* `response.into_iter().map(|(_, v)| v.0).next()`, then
\* `Ok(metadata.unwrap_or_default())`.
FirstOrDefault(items) ==
    Ok(IF items = <<>> THEN MetadataDefault ELSE items[1].record)

NoRequest ==
    [source |-> NoArg, isbn |-> NoArg, stage |-> "idle", body |-> NoBody,
     items |-> <<>>]

FetchStart ==
    /\ request = NoRequest
    /\ provided = NoResult

\* from_isbn is called: the request URL is built and reqwest::get is awaited.
RequestSent ==
    /\ request.stage = "idle"
    /\ \E source \in Implemented, isbn \in SampleIsbns :
          request' = [NoRequest EXCEPT !.source = source, !.isbn = isbn,
                                       !.stage = "sent"]
    /\ UNCHANGED provided
    /\ UNCHANGED notFetchVars

\* The request fails: `?` returns the Err.
RequestFails ==
    /\ request.stage = "sent"
    /\ provided' = GetFailed
    /\ request' = [request EXCEPT !.stage = "returned"]
    /\ UNCHANGED notFetchVars

\* The response arrives: its body starts to be read.
BodyArrives ==
    /\ request.stage = "sent"
    /\ \E body \in {MalformedBody, OtherShapeBody, EmptyBody} :
          request' = [request EXCEPT !.stage = "body", !.body = body]
    /\ UNCHANGED provided
    /\ UNCHANGED notFetchVars

\* One more book item of the body is read.  The keys of an object are
\* distinct.
BodyItemArrives ==
    /\ request.stage = "body"
    /\ request.body.json = "items"
    /\ Len(request.body.items) < MaxBodyItems
    /\ \E item \in BodyItems(request.source) :
          /\ request.source = "OpenLibrary" =>
                \A i \in DOMAIN request.body.items : request.body.items[i].key # item.key
          /\ request' = [request EXCEPT !.body.items = Append(@, item)]
    /\ UNCHANGED provided
    /\ UNCHANGED notFetchVars

\* The body is complete and decoded: an Err is returned by `?`, the items
\* are kept in their order of iteration.
ResponseDecoded ==
    /\ request.stage = "body"
    /\ LET r == JsonItems(request.body)
       IN  IF IsErr(r)
           THEN /\ provided' = r
                /\ request' = [request EXCEPT !.stage = "returned"]
           ELSE /\ \E items \in IterationOrders(request.source, r.val) :
                      request' = [request EXCEPT !.stage = "decoded", !.items = items]
                /\ UNCHANGED provided
    /\ UNCHANGED notFetchVars

\* from_isbn returns the record of the first item, or the default record.
RecordReturned ==
    /\ request.stage = "decoded"
    /\ provided' = FirstOrDefault(request.items)
    /\ request' = [request EXCEPT !.stage = "returned"]
    /\ UNCHANGED notFetchVars

-----------------------------------------------------------------------------
(* SpecMinimal: OpenLibraryMinimal::from_isbn (sources/open_library.rs),   *)
(* the two-step decode: the details of the book, then the work that holds  *)
(* the description                                                         *)

\* Most works listed in the details of one book.
MaxWorks == 2

\* ReconError::JSONParse(serde_json::Error).
JSONParse(e) == [kind |-> "JSONParse", error |-> e]

\* What `reqwest::get(req).await.map_err(ReconError::Connection)?
\* .json::<serde_json::Value>().await.map_err(ReconError::Connection)?`
\* gives for a request that fails, a body that is not JSON, and a JSON body.
GetJson(bodies) ==
    {GetFailed, Err(Connection("decode"))} \cup {Ok(b) : b \in bodies}

SampleWorkKeys == {"/works/OL893415W", "/works/OL17860744W"}

WorkLists == UNION {[1..n -> SampleWorkKeys] : n \in 0..MaxWorks}

\* `value[isbn_key]["details"].take()`: Null when the body does not hold the
\* book, else the details object with its title, authors and works keys,
\* each present or absent.
NullValue == [json |-> "null"]

DetailsValues ==
    {NullValue} \cup
    {[json |-> "object", title |-> t, authors |-> a, works |-> w] :
        t \in {None, Some("Dune")},
        a \in {None, Some(<<"Frank Herbert">>)},
        w \in {None} \cup {Some(l) : l \in WorkLists}}

\* The JSON of a work: its description is a string, or is absent (or an
\* object, which `as_str()` does not take).
WorkValues ==
    {[description |-> d] : d \in {None, Some("Set on the desert planet Arrakis")}}

\* adaptor::parse_works: every value of every map of the list, as Ok.
parse_works(works) == [i \in DOMAIN works |-> Ok(works[i])]

\* adaptor::parse_authors: the names, as Ok; no list, no names.
parse_authors(authors) ==
    IF IsSome(authors) THEN [i \in DOMAIN authors.val |-> Ok(authors.val[i])] ELSE <<>>

\* `serde_json::from_value::<Self>(v).map_err(ReconError::JSONParse)`: the
\* Deserialize of OpenLibraryMinimal requires title and works.
MinimalFromValue(v) ==
    IF v.json = "null" THEN Err(JSONParse("invalid_type"))
    ELSE IF ~IsSome(v.title) THEN Err(missing_field("title"))
    ELSE IF ~IsSome(v.works) THEN Err(missing_field("works"))
    ELSE Ok([isbns |-> <<>>,
             titles |-> <<Ok(v.title.val)>>,
             authors |-> parse_authors(v.authors),
             descriptions |-> parse_works(v.works.val)])

\* `first_pass.0.descriptions.pop().ok_or_else(|| missing_field("works"))
\* .map_err(ReconError::JSONParse)??`: the last work listed.
PopWork(first_pass) ==
    IF first_pass.descriptions = <<>> THEN Err(missing_field("works"))
    ELSE first_pass.descriptions[Len(first_pass.descriptions)]

\* The first pass: the details request with its two `?`, the decoding with
\* its `??`.
FirstPass(out) == IF IsErr(out) THEN out ELSE MinimalFromValue(out.val)

\* The description read from the work:
\* `["description"].take().as_str().map(|s| s.to_string())
\* .ok_or_else(|| missing_field("description")).map_err(ReconError::JSONParse)`.
WorkDescription(work) ==
    IF IsSome(work.description) THEN Ok(work.description.val)
    ELSE Err(missing_field("description"))

\* The second pass: the work request with its two `?`, then
\* `first_pass.0.descriptions = vec![description]; Ok(first_pass)`.
SecondPass(first_pass, out) ==
    IF IsErr(out) THEN out
    ELSE Ok([first_pass EXCEPT !.descriptions = <<WorkDescription(out.val)>>])

NoLookup ==
    [stage |-> "idle", isbn |-> NoArg, first_pass |-> NoResult,
     work |-> NoArg, second |-> NoResult]

MinimalStart ==
    /\ lookup = NoLookup
    /\ minimal = NoResult

\* OpenLibraryMinimal::from_isbn is called: the details request is sent.
DetailsRequested ==
    /\ lookup.stage = "idle"
    /\ \E isbn \in SampleIsbns :
          lookup' = [lookup EXCEPT !.stage = "details", !.isbn = isbn]
    /\ UNCHANGED minimal
    /\ UNCHANGED notMinimalVars

\* The details request completes.  An Err of the request, of the decoding
\* or of the pop of the work is returned; else the work request is sent.
DetailsAnswered ==
    /\ lookup.stage = "details"
    /\ \E out \in GetJson(DetailsValues) :
          LET first == FirstPass(out)
              work == IF IsOk(first) THEN PopWork(first.val) ELSE first
          IN  IF IsErr(work)
              THEN /\ minimal' = work
                   /\ lookup' = [lookup EXCEPT !.stage = "returned"]
              ELSE /\ lookup' = [lookup EXCEPT !.stage = "work",
                                               !.first_pass = first,
                                               !.work = work.val]
                   /\ UNCHANGED minimal
    /\ UNCHANGED notMinimalVars

\* The work request completes and from_isbn returns.
WorkAnswered ==
    /\ lookup.stage = "work"
    /\ \E out \in GetJson(WorkValues) :
          /\ minimal' = SecondPass(lookup.first_pass.val, out)
          /\ lookup' = [lookup EXCEPT !.stage = "returned", !.second = out]
    /\ UNCHANGED notMinimalVars

-----------------------------------------------------------------------------
(* SpecAdaptor: parse_languages and parse_covers (sources/adaptor.rs), from *)
(* the value serde decoded for the key to what the adaptor returns          *)

\* Most entries of the list under "languages" or "covers".
MaxEntries == 2

\* A String is the sequence of its characters here: split_off works on
\* positions.  The samples are ASCII, a character is a byte.
LanguagePrefix == <<"/", "l", "a", "n", "g", "u", "a", "g", "e", "s", "/">>

\* Values of the "key" of a language object: OpenLibrary's keys, and strings
\* that are not such keys.
LanguageValues ==
    {LanguagePrefix \o <<"e", "n", "g">>,
     LanguagePrefix \o <<"f", "r", "e">>,
     <<"e", "n", "g">>,
     <<"e", "n">>,
     <<>>}

\* The entries of the list under "languages": HashMap<String, String>, given
\* as the list of its entries; no entry, or the "key" entry.
LanguageMaps ==
    {<<>>} \cup {<<[key |-> "key", value |-> v]>> : v \in LanguageValues}

\* The entries of the list under "covers": u32 cover ids.
CoverIds == {0, 6121771, 8739161}

\* `v.len() - 3` on usize: a length below 3 has no difference.  The debug
\* build panics at the subtraction; the release build wraps to a position
\* beyond the end, which split_off refuses.
CheckedSub(a, b) == IF a >= b THEN Some(a - b) ELSE None

\* String::split_off(at): the tail from position at on; it panics when at is
\* beyond the end.
SplitOff(v, at) ==
    IF at > Len(v) THEN Panicked ELSE SubSeq(v, at + 1, Len(v))

\* `v.split_off(v.len() - 3)`: "/languages/eng" -> "eng".
LastThree(v) ==
    LET at == CheckedSub(Len(v), 3)
    IN  IF IsSome(at) THEN SplitOff(v, at.val) ELSE Panicked

RECURSIVE EntriesOfMaps(_, _)
\* `.into_iter().map(|h| h.into_iter()...).flatten()`: the entries of the
\* maps of the list, one after the other.
EntriesOfMaps(maps, i) ==
    IF i > Len(maps) THEN <<>>
    ELSE maps[i] \o EntriesOfMaps(maps, i + 1)

\* parse_languages: the last three characters of every value of every map,
\* each as an Ok, in a Some.  A panic of one split_off is the panic of the
\* call.
parse_languages(languages) ==
    LET entries == EntriesOfMaps(languages, 1)
        codes == [i \in DOMAIN entries |-> LastThree(entries[i].value)]
    IN  IF \E i \in DOMAIN codes : codes[i] = Panicked
        THEN Panicked
        ELSE Some([i \in DOMAIN codes |-> Ok(codes[i])])

\* `let possible_sizes = ["S", "M", "L"];`
possible_sizes == <<"S", "M", "L">>

\* `format!("https://covers.openlibrary.org/b/id/{}-{}.jpg", cover, size)`.
CoverUrl(cover, size) ==
    [url |-> "https://covers.openlibrary.org/b/id/", id |-> cover, size |-> size]

RECURSIVE CoverUrls(_, _)
\* The three urls of every cover id, in the order of the list.
CoverUrls(covers, i) ==
    IF i > Len(covers) THEN <<>>
    ELSE [k \in DOMAIN possible_sizes |-> Ok(CoverUrl(covers[i], possible_sizes[k]))]
            \o CoverUrls(covers, i + 1)

\* parse_covers: the urls, each as an Ok, in a Some.
parse_covers(covers) == Some(CoverUrls(covers, 1))

NoAdaptee == [key |-> NoArg, value |-> <<>>]

AdaptorStart ==
    /\ adaptee = NoAdaptee
    /\ adapted = NoResult

\* visit_map meets the "languages" or the "covers" key and starts to read
\* its list.
ValueDecoded ==
    /\ adaptee = NoAdaptee
    /\ \E k \in {"languages", "covers"} : adaptee' = [key |-> k, value |-> <<>>]
    /\ UNCHANGED adapted
    /\ UNCHANGED notAdaptorVars

\* One more entry of the list is read.
EntryDecoded ==
    /\ adaptee # NoAdaptee
    /\ adapted = NoResult
    /\ Len(adaptee.value) < MaxEntries
    /\ \E e \in (IF adaptee.key = "languages" THEN LanguageMaps ELSE CoverIds) :
          adaptee' = [adaptee EXCEPT !.value = Append(adaptee.value, e)]
    /\ UNCHANGED adapted
    /\ UNCHANGED notAdaptorVars

\* `languages = adaptor::parse_languages(map.next_value()?)`,
\* `covers = adaptor::parse_covers(map.next_value()?)`.
Adapt ==
    /\ adaptee # NoAdaptee
    /\ adapted = NoResult
    /\ adapted' = IF adaptee.key = "languages"
                  THEN parse_languages(adaptee.value)
                  ELSE parse_covers(adaptee.value)
    /\ UNCHANGED adaptee
    /\ UNCHANGED notAdaptorVars

-----------------------------------------------------------------------------
(* Specifications                                                          *)

\* The provider call of SpecFetch, the call of SpecMinimal and the adaptor
\* of SpecAdaptor, not started.
OthersStart == FetchStart /\ MinimalStart /\ AdaptorStart

Init ==
    /\ FlowStart /\ MergeStart /\ SearchStart /\ TranslateStart /\ DecodeStart
    /\ OthersStart

Next ==
    \/ CallFromIsbn
    \/ CallFromDescription
    \/ SearchCompletes
    \/ FetchCompletes
    \/ FromIsbnCompletes
    \/ FromDescriptionCompletes

Spec == Init /\ [][Next]_vars

MergeInit ==
    /\ MergeStart /\ FlowIdle /\ SearchStart /\ TranslateStart /\ DecodeStart
    /\ OthersStart

MergeNext == InsertValue \/ MergeOperands

SpecMerge == MergeInit /\ [][MergeNext]_vars

SearchInit ==
    /\ SearchStart /\ FlowIdle /\ MergeStart /\ TranslateStart /\ DecodeStart
    /\ OthersStart

SearchNext == ResponseArrives \/ ItemArrives \/ CandidatesReturned

SpecSearch == SearchInit /\ [][SearchNext]_vars

TranslateInit ==
    /\ TranslateStart /\ FlowIdle /\ MergeStart /\ SearchStart /\ DecodeStart
    /\ OthersStart

TranslateNext ==
    \/ IdentifiersKeyDecoded
    \/ IdentifierDecoded
    \/ DateKeyDecoded
    \/ Translate

SpecTranslate == TranslateInit /\ [][TranslateNext]_vars

DecodeInit ==
    /\ DecodeStart /\ FlowIdle /\ MergeStart /\ SearchStart /\ TranslateStart
    /\ OthersStart

DecodeNext == ObjectArrives \/ KeyArrives \/ ObjectDeserialized

SpecDecode == DecodeInit /\ [][DecodeNext]_vars

\* The hypothesis of termination and the executor: a request that was sent
\* completes, and a future that can make progress is polled.
LiveFairness ==
    /\ WF_vars(SearchCompletes \/ FetchCompletes)
    /\ WF_vars(CallFromIsbn \/ CallFromDescription
                   \/ FromIsbnCompletes \/ FromDescriptionCompletes)

\* The calls SpecLive runs: those of Spec, a from_description listing at most
\* MaxLiveSources providers.
LiveCallInputs ==
    {c \in CallInputs :
        c.entry = "from_description" => Len(c.sources) <= MaxLiveSources}

LiveInit == Init /\ call \in LiveCallInputs

SpecLive == LiveInit /\ [][Next]_vars /\ LiveFairness

FetchInit ==
    /\ FlowIdle /\ MergeStart /\ SearchStart /\ TranslateStart /\ DecodeStart
    /\ OthersStart

FetchNext ==
    \/ RequestSent
    \/ RequestFails
    \/ BodyArrives
    \/ BodyItemArrives
    \/ ResponseDecoded
    \/ RecordReturned

SpecFetch == FetchInit /\ [][FetchNext]_vars

MinimalInit ==
    /\ FlowIdle /\ MergeStart /\ SearchStart /\ TranslateStart /\ DecodeStart
    /\ OthersStart

MinimalNext == DetailsRequested \/ DetailsAnswered \/ WorkAnswered

SpecMinimal == MinimalInit /\ [][MinimalNext]_vars

AdaptorInit ==
    /\ FlowIdle /\ MergeStart /\ SearchStart /\ TranslateStart /\ DecodeStart
    /\ OthersStart

AdaptorNext == ValueDecoded \/ EntryDecoded \/ Adapt

SpecAdaptor == AdaptorInit /\ [][AdaptorNext]_vars

-----------------------------------------------------------------------------
(* Claims about merge, checked under SpecMerge                             *)

MergeResults == {"ab", "ba", "ab_c", "a_bc", "aa", "ea", "ae"}

\* C1 (merge identity): merging the default (empty) record with a record R,
\* on either side, yields a record equal to R in every field.
MergeIdentity ==
    mpc = "merged" =>
        /\ SameContent(merged.ea, operand["A"])
        /\ SameContent(merged.ae, operand["A"])

\* C1's case: a record with values in a plain field and in a cover size
\* class has been merged with the empty record.
MergeIdentityWitness ==
    /\ mpc = "merged"
    /\ \E f \in MetaFields : SlotOf(operand["A"], f) # <<>>
    /\ \E c \in CoverFields : SlotOf(operand["A"], c) # <<>>
    /\ Size(merged.ea) >= 2
    /\ Size(merged.ae) >= 2

\* C2 (commutativity): merge(A,B) and merge(B,A) hold the same values in
\* every field, every cover-image size class included.
MergeCommutative ==
    mpc = "merged" => SameContent(merged.ab, merged.ba)

\* C2's case: A and B both supply a value for one field, and not the same
\* one, so the two merges insert them in different orders.
MergeCommutativeWitness ==
    /\ mpc = "merged"
    /\ \E f \in Slots :
          /\ SlotOf(operand["A"], f) # <<>>
          /\ SlotOf(operand["B"], f) # <<>>
          /\ Elems(SlotOf(operand["A"], f)) # Elems(SlotOf(operand["B"], f))
          /\ SlotOf(merged.ab, f) # SlotOf(merged.ba, f)

\* C3 (associativity): merge(merge(A,B),C) and merge(A,merge(B,C)) hold the
\* same values in every field.
MergeAssociative ==
    mpc = "merged" => SameContent(merged.ab_c, merged.a_bc)

\* C3's case: three non-empty records have been merged both ways.
MergeAssociativeWitness ==
    /\ mpc = "merged"
    /\ \A r \in Operands : Size(operand[r]) >= 1
    /\ Size(merged.ab_c) >= 2

\* C4 (deduplication idempotence): merge(R,R) has, per field, the same set
\* of distinct values as R, and no field of any merge result holds a value
\* twice.
MergeDeduplicates ==
    mpc = "merged" =>
        /\ SameContent(merged.aa, operand["A"])
        /\ \A n \in MergeResults, f \in Slots : NoDuplicates(SlotOf(merged[n], f))

\* C4's case: R has two values in one field and is merged with itself, and
\* another merge has met a value both sides supply.
MergeDeduplicatesWitness ==
    /\ mpc = "merged"
    /\ \E f \in Slots :
          /\ Len(SlotOf(operand["A"], f)) = 2
          /\ Len(SlotOf(merged.aa, f)) = 2
          /\ Elems(SlotOf(operand["A"], f)) \cap Elems(SlotOf(operand["B"], f)) # {}

\* C5 (per-field union): a value is in merge(A,B).f exactly when it is in
\* A.f or in B.f; nothing is discarded because the other side also has a
\* value, and nothing moves to another field or size class.
MergeIsFieldUnion ==
    mpc = "merged" =>
        \A f \in Slots :
            Elems(SlotOf(merged.ab, f)) =
                Elems(SlotOf(operand["A"], f)) \cup Elems(SlotOf(operand["B"], f))

\* C5's case: both records supply a different value for the same field and
\* both values are in the merge, while another field stays empty.
MergeIsFieldUnionWitness ==
    /\ mpc = "merged"
    /\ \E f \in Slots :
          /\ Elems(SlotOf(operand["A"], f)) = {"u"}
          /\ Elems(SlotOf(operand["B"], f)) = {"v"}
          /\ Elems(SlotOf(merged.ab, f)) = {"u", "v"}
    /\ \E g \in Slots : SlotOf(merged.ab, g) = <<>>

-----------------------------------------------------------------------------
(* Claims about the orchestrator, checked under Spec                       *)

\* The from_isbn runs that have returned: the sub-flows whose future is ready
\* (a direct call is the single sub-flow 1).
Returned == {k \in DOMAIN subflow : IsReady(subflow[k])}

\* The providers of sub-flow k whose call returned an Err / an Ok.
Failed(k) == {i \in DOMAIN task[k] : IsReady(task[k][i]) /\ IsErr(task[k][i].out)}

Succeeded(k) == {i \in DOMAIN task[k] : IsReady(task[k][i]) /\ IsOk(task[k][i].out)}

\* C6 (fail-fast by-identifier flow): when at least one provider of the list
\* fails, from_isbn returns an error, even when the other providers
\* succeeded; no partial merged record is returned.
FromIsbnFailsWhenAProviderFails ==
    /\ \A k \in Returned : Failed(k) # {} => IsErr(subflow[k].out)
    /\ (pc = "done" /\ call.entry = "from_isbn" /\ Failed(1) # {}) => IsErr(result)

\* C6's case: a direct call has returned while one provider had failed and
\* another had succeeded with a record that holds values.
FromIsbnFailsWitness ==
    /\ pc = "done"
    /\ call.entry = "from_isbn"
    /\ Failed(1) # {}
    /\ \E i \in Succeeded(1) : Size(task[1][i].out.val) > 0
    /\ IsErr(result)

\* C7 (by-identifier success): when every provider of the list succeeds,
\* from_isbn returns Ok with the merge of all the providers' records: each
\* field holds exactly the values some provider returned for it, once.
FromIsbnMergesAllRecords ==
    \A k \in Returned :
        Succeeded(k) = DOMAIN task[k] =>
            /\ IsOk(subflow[k].out)
            /\ \A f \in Slots :
                  /\ Elems(SlotOf(subflow[k].out.val, f)) =
                        UNION {Elems(SlotOf(task[k][i].out.val, f)) : i \in DOMAIN task[k]}
                  /\ NoDuplicates(SlotOf(subflow[k].out.val, f))
            /\ (call.entry = "from_isbn" /\ pc = "done") => result = subflow[k].out

\* C7's case: a direct call to two providers that both succeeded, each with
\* values the other does not have, has returned.
FromIsbnMergesWitness ==
    /\ pc = "done"
    /\ call.entry = "from_isbn"
    /\ Len(call.sources) >= 2
    /\ Succeeded(1) = DOMAIN task[1]
    /\ IsOk(result)
    /\ result.val.cover_image.thumbnail # <<>>
    /\ result.val.cover_image.large # <<>>
    /\ Len(result.val.title) = 1

RECURSIVE MergeBackwards(_, _, _)
\* The records the providers of the list hold for an identifier, merged from
\* the last source of the list to the first.
MergeBackwards(sources, isbn, i) ==
    IF i = 0 THEN MetadataDefault
    ELSE Add(ProviderRecord(sources[i], isbn), MergeBackwards(sources, isbn, i - 1))

\* C8 (completion-order independence): the content of the record from_isbn
\* returns is fixed by the identifier, the provider list and the providers'
\* outcomes, whatever the order in which the requests complete.
FromIsbnContentIgnoresCompletionOrder ==
    \A k \in Returned :
        IsOk(subflow[k].out) =>
            SameContent(subflow[k].out.val,
                        MergeBackwards(call.sources, isbns[k], Len(call.sources)))

\* C8's case: in a direct call the request to a later source completed
\* before the request to an earlier one, and the call returned a record.
FromIsbnCompletionOrderWitness ==
    /\ pc = "done"
    /\ call.entry = "from_isbn"
    /\ overtaken
    /\ IsOk(result)
    /\ \E i, j \in DOMAIN call.sources :
          ~SameContent(task[1][i].out.val, task[1][j].out.val)

\* C9 (by-description sub-flow failure): when the from_isbn sub-flow of a
\* candidate identifier fails, from_description returns an error.
FromDescriptionFailsWhenASubflowFails ==
    (pc = "done" /\ call.entry = "from_description"
        /\ \E k \in Returned : IsErr(subflow[k].out))
    => IsErr(result)

\* C10 (by-description search failure): when the search provider's
\* from_description fails, from_description returns that error and starts no
\* by-identifier sub-flow.
FromDescriptionFailsWhenSearchFails ==
    (pc = "done" /\ call.entry = "from_description" /\ IsErr(searchOut))
    => /\ IsErr(result)
       /\ result.err = searchOut.err
       /\ subflow = <<>>
       /\ task = <<>>

\* C10's case: the search request of a from_description call has failed and
\* the call has returned.
FromDescriptionSearchFailsWitness ==
    /\ pc = "done"
    /\ call.entry = "from_description"
    /\ call.search \in Implemented
    /\ call.sources # <<>>
    /\ IsErr(searchOut)
    /\ IsErr(result)

-----------------------------------------------------------------------------
(* Claims about the shape and the errors of the two calls, under Spec      *)

\* C11 (by-description result shape): when the search and every sub-flow
\* succeed, from_description returns one record per candidate identifier,
\* in candidate order, the i-th record being the from_isbn result for the
\* i-th candidate; records of different candidates are not merged.
FromDescriptionOneRecordPerCandidate ==
    (pc = "done" /\ call.entry = "from_description" /\ IsOk(searchOut)
        /\ \A k \in DOMAIN subflow : IsOk(subflow[k].out))
    => /\ IsOk(result)
       /\ Len(result.val) = Len(searchOut.val)
       /\ \A i \in DOMAIN result.val :
             /\ result.val[i] = subflow[i].out.val
             /\ isbns[i] = searchOut.val[i]
             /\ SameContent(result.val[i],
                            MergeBackwards(call.sources, searchOut.val[i],
                                           Len(call.sources)))

\* C11's case: a search returned several candidates, every sub-flow
\* succeeded with providers that hold records, and the call returned
\* records that differ.
FromDescriptionShapeWitness ==
    /\ pc = "done"
    /\ call.entry = "from_description"
    /\ Len(call.sources) >= 2
    /\ IsOk(searchOut)
    /\ Len(searchOut.val) >= 2
    /\ \A k \in DOMAIN subflow : IsOk(subflow[k].out)
    /\ IsOk(result)
    /\ Len(result.val) >= 2
    /\ ~SameContent(result.val[1], result.val[2])

\* The call names a source that has no provider: in the provider list, or
\* as the search source.
NamesUnsupported ==
    \/ HasUnimplemented(call.sources)
    \/ (call.entry = "from_description" /\ call.search \notin Implemented)

\* C13 (unsupported provider): a from_isbn or from_description call that
\* names a source with no provider (Amazon, Goodreads) does not panic; it
\* returns an error value.
UnsupportedProviderIsAnError ==
    /\ pc # "panicked"
    /\ (pc = "done" /\ NamesUnsupported) => IsErr(result)

\* The first source of the list whose request failed in sub-flow k.
FirstFailedInList(k) == CHOOSE i \in Failed(k) : \A j \in Failed(k) : i <= j

-----------------------------------------------------------------------------
(* Claims about the identifier-search decoders, under SpecSearch           *)

\* The identifier strings a result item carries, at any position.
ItemStrings(source, item) ==
    IF source = "GoogleBooks"
    THEN {item[j].identifier : j \in {j \in DOMAIN item : "identifier" \in DOMAIN item[j]}}
    ELSE IF IsSome(item) THEN {item.val[j] : j \in DOMAIN item.val} ELSE {}

\* Candidate c is the parse of an identifier string of the item.
ComesFrom(c, source, item) ==
    \E str \in ItemStrings(source, item) : IsbnFromStr(str) = Ok(c)

\* C12 (candidate truncation): whatever the number of result items, the
\* identifier-search decoder of each provider returns at most 3 candidate
\* identifiers, in the same relative order as the items of the provider's
\* result list they come from.
SearchReturnsAtMostThreeInOrder ==
    candidates # NoResult =>
        /\ IsOk(candidates)
        /\ Len(candidates.val) <= 3
        /\ \E from \in [DOMAIN candidates.val -> DOMAIN response.items] :
              /\ \A i, j \in DOMAIN from : i < j => from[i] < from[j]
              /\ \A i \in DOMAIN from :
                    ComesFrom(candidates.val[i], response.source, response.items[from[i]])

\* C12's case: a response of five items, each with a valid identifier,
\* has been decoded to three candidates.
SearchTruncationWitness ==
    /\ candidates # NoResult
    /\ Len(response.items) = 5
    /\ \A i \in DOMAIN response.items :
          LET o == FirstIdentifier(response.source, response.items[i])
          IN  IsSome(o) /\ IsOk(IsbnFromStr(o.val))
    /\ Len(candidates.val) = 3
    /\ candidates.val[1] # candidates.val[2]

-----------------------------------------------------------------------------
(* Claims about the translaters, under SpecTranslate                       *)

IsTranslated(keys) == translated # NoResult /\ field.key \in keys

IdentifierKeys == {"industryIdentifiers", "identifiers"}

DateKeys == {"publishedDate", "publish_date"}

\* The ISBN strings the identifiers value lists: the identifiers of type
\* ISBN_10 / ISBN_13 (GoogleBooks), the strings under isbn_10 / isbn_13
\* (OpenLibrary).
InputIsbnStrings ==
    IF ~IsSome(field.value) THEN {}
    ELSE IF field.source = "GoogleBooks"
    THEN {e.identifier : e \in {e \in Elems(field.value.val) :
                                   e.type \in {"ISBN_10", "ISBN_13"}}}
    ELSE UNION {Elems(e.values) : e \in {e \in Elems(field.value.val) :
                                           e.key \in {"isbn_10", "isbn_13"}}}

\* The entries of the record's identifier collection: every element of
\* isbn10 and isbn13 is a parsed identifier.
IdentifierEntriesOf(t) == {Ok(v) : v \in Elems(t.isbn10) \cup Elems(t.isbn13)}

\* C15 (identifier retention): every ISBN string of the input's identifier
\* list has an entry in the record's identifier collection, the parsed
\* identifier or its parse failure; none is dropped.
EveryIdentifierStringHasAnEntry ==
    IsTranslated(IdentifierKeys) =>
        \A str \in InputIsbnStrings :
            IsbnFromStr(str) \in IdentifierEntriesOf(translated.val)

\* What each format of the list makes of date string s, in list order.
FormatOutcomes(s) ==
    [i \in DOMAIN possible_formats |-> ParseFromStr(s, possible_formats[i])]

\* The formats that parse s.
Parsing(s) == {i \in DOMAIN possible_formats : IsOk(FormatOutcomes(s)[i])}

FirstParsing(s) == CHOOSE i \in Parsing(s) : \A j \in Parsing(s) : i <= j

Date(year, month, day) == [year |-> year, month |-> month, day |-> day]

UnparseableDateIsRetained ==
    IsTranslated(DateKeys) =>
        /\ (IsSome(field.value) /\ Parsing(field.value.val) = {})
              => translated.val.publication_date # <<>>
        /\ ~IsSome(field.value) => translated.val.publication_date = <<>>

-----------------------------------------------------------------------------
(* Claims about the decoders, under SpecDecode                             *)

IsDecoded == decoded # NoResult

\* The keys of the object that the decoder names / does not name.
Recognised(k) == visit_str(object.source, k) # "Ignore"

\* The keys of the optional fields: description, publisher, publication
\* date, language, tags, cover images.
OptionalKeys ==
    {"description", "publisher", "publishedDate", "language", "categories",
     "imageLinks", "publishers", "publish_date", "subjects", "cover"}

\* Some recognised key occurs twice in the object.
HasDuplicateKey ==
    \E i, j \in DOMAIN object.keys :
        i < j /\ object.keys[i] = object.keys[j] /\ Recognised(object.keys[i])

DuplicateKeyFailsDecode ==
    (IsDecoded /\ HasDuplicateKey)
    => /\ IsErr(decoded)
       /\ decoded.err.error = "duplicate_field"
       /\ \E i, j \in DOMAIN object.keys :
             /\ i < j
             /\ object.keys[i] = object.keys[j]
             /\ decoded.err.field = object.keys[j]

\* C17's case: an object whose last key repeats its first, with an
\* unrecognised key between them, has been decoded.
DuplicateKeyWitness ==
    /\ IsDecoded
    /\ Len(object.keys) = 3
    /\ object.keys[1] = object.keys[3]
    /\ Recognised(object.keys[1])
    /\ ~Recognised(object.keys[2])
    /\ IsErr(decoded)

\* The keys of the list that the decoder names, in order.
RecognisedOnly(keys) == SelectSeq(keys, Recognised)

\* C18 (unknown keys): the unrecognised keys of an object, whatever their
\* number and position, change neither whether the decode succeeds nor the
\* record: the result is that of the object without them.
UnknownKeysChangeNothing ==
    IsDecoded => decoded = Deserialize(object.source, RecognisedOnly(object.keys))

\* C18's case: an object with an unrecognised key before a recognised one
\* has been decoded to a record.
UnknownKeysWitness ==
    /\ IsDecoded
    /\ Len(object.keys) >= 2
    /\ ~Recognised(object.keys[1])
    /\ Recognised(object.keys[Len(object.keys)])
    /\ IsOk(decoded)
    /\ Size(decoded.val) > 0

-----------------------------------------------------------------------------
(* Claims about the barrier, the requests sent and the end of the calls,   *)
(* under Spec and SpecLive                                                  *)

\* The requests of sub-flow k that are still in flight.
InFlight(k) == {i \in DOMAIN task[k] : ~IsReady(task[k][i])}

\* C21 (join-all barrier): from its first poll on, from_isbn has one request
\* per provider of the list in flight or completed, none waiting for another
\* to complete; it returns only when every one of them has completed.
FromIsbnJoinsAllRequests ==
    /\ pc = "join" => \A k \in DOMAIN task : DOMAIN task[k] = DOMAIN call.sources
    /\ \A k \in Returned : InFlight(k) = {}
    /\ (call.entry = "from_isbn" /\ pc = "done")
       => /\ DOMAIN task[1] = DOMAIN call.sources
          /\ InFlight(1) = {}

\* C21's case: in a direct call to several providers the request to a later
\* provider has completed while the request to the first is in flight, and
\* the call has not returned.
FromIsbnBarrierWitness ==
    /\ pc = "join"
    /\ call.entry = "from_isbn"
    /\ Len(call.sources) >= 2
    /\ 1 \in InFlight(1)
    /\ \E i \in DOMAIN task[1] : i > 1 /\ IsReady(task[1][i])
    /\ result = NoResult

\* C22 as stated (short-circuit on failure): once a provider request of a
\* from_isbn call has failed, the call can return at once, the requests to
\* the other providers being still in flight.
FailedFetchShortCircuits ==
    (pc = "join" /\ call.entry = "from_isbn" /\ Failed(1) # {} /\ InFlight(1) # {})
    => ENABLED FromIsbnCompletes

\* C22, amended (no short-circuit): a failed provider request does not end
\* the awaited batch; while a request of the same from_isbn is in flight
\* the from_isbn has not returned, and the error is returned once every
\* request has completed.
FailedFetchWaitsForSiblings ==
    /\ \A k \in DOMAIN task :
          (Failed(k) # {} /\ InFlight(k) # {}) => ~IsReady(subflow[k])
    /\ (call.entry = "from_isbn" /\ pc = "done") => Failed(1) = {} \/ InFlight(1) = {}
    /\ (call.entry = "from_isbn" /\ pc = "done" /\ IsErr(result))
       => InFlight(1) = {}

\* C22's case: in a direct call one provider request has failed and another
\* is in flight; the call has not returned.
FailedFetchWitness ==
    /\ pc = "join"
    /\ call.entry = "from_isbn"
    /\ Failed(1) # {}
    /\ InFlight(1) # {}
    /\ result = NoResult

-----------------------------------------------------------------------------
(* Candidate extraction, under SpecSearch                                  *)

\* The result item carries a first identifier string: the first identifier
\* entry of a GoogleBooks item has an identifier, the isbn list of an
\* OpenLibrary doc is present and not empty.
HasFirstString(item) ==
    IF response.source = "GoogleBooks"
    THEN Len(item) > 0 /\ "identifier" \in DOMAIN item[1]
    ELSE IsSome(item) /\ Len(item.val) > 0

FirstString(item) ==
    IF response.source = "GoogleBooks" THEN item[1].identifier ELSE item.val[1]

\* The first identifier strings of the response's items, the items without
\* one skipped, cut to the first three.
FirstThreeStrings ==
    LET having == SelectSeq(response.items, HasFirstString)
        strings == [i \in DOMAIN having |-> FirstString(having[i])]
    IN  SubSeq(strings, 1, IF Len(strings) < 3 THEN Len(strings) ELSE 3)

Parses(s) == IsOk(IsbnFromStr(s))

-----------------------------------------------------------------------------
(* Claims about one provider call, under SpecFetch and SpecMinimal         *)

\* The two-step call has returned after its work request failed: the
\* request itself, or the decoding of its body.
WorkRequestFailed == lookup.stage = "returned" /\ IsErr(lookup.second)

\* C24 (secondary-fetch degradation): when the request for the work fails,
\* OpenLibraryMinimal::from_isbn returns Ok with the record of the first
\* pass and an empty description.
SecondaryFetchFailureDegrades ==
    WorkRequestFailed =>
        /\ IsOk(minimal)
        /\ minimal.val.descriptions = <<>>

\* The provider call has returned after a body that is not JSON, or is JSON
\* of another shape than the one decoded.
BodyNotDecodable ==
    request.stage = "returned" /\ request.body.json \in {"malformed", "other"}

\* C25 (typed decode failures): when the body of a provider's response is
\* malformed JSON or has an unexpected shape, the provider's from_isbn fails
\* with ReconError::JSONParse, not with ReconError::Connection.
DecodeFailureIsJSONParse ==
    BodyNotDecodable =>
        /\ IsErr(provided)
        /\ provided.err.kind = "JSONParse"

\* The provider call has returned after a body that was decoded.
BodyDecoded == request.stage = "returned" /\ request.body.json = "items"

-----------------------------------------------------------------------------
(* The requests sent by a call, under Spec                                 *)

\* C26 (fetch count): a from_isbn call that has returned has sent exactly
\* one request per provider of its list; a from_description call that has
\* returned has sent one search request and, after a search that succeeded,
\* one request per candidate identifier and provider; a request that failed
\* is not sent again.
EachRequestIsSentOnce ==
    /\ (pc = "done" /\ call.entry = "from_isbn") => fetches = Len(call.sources)
    /\ (pc = "done" /\ call.entry = "from_description" /\ IsOk(searchOut))
       => fetches = 1 + Len(searchOut.val) * Len(call.sources)
    /\ (pc = "done" /\ call.entry = "from_description" /\ IsErr(searchOut))
       => fetches = 1
    /\ pc = "search" => fetches = 1
    /\ pc = "join"
       => fetches = (IF call.entry = "from_description" THEN 1 ELSE 0)
                       + Len(task) * Len(call.sources)

\* C26's case: a from_description call with several candidates and several
\* providers has returned, one of its provider requests having failed.
RequestCountWitness ==
    /\ pc = "done"
    /\ call.entry = "from_description"
    /\ IsOk(searchOut)
    /\ Len(searchOut.val) >= 2
    /\ Len(call.sources) >= 2
    /\ \E k \in DOMAIN task : Failed(k) # {}
    /\ fetches = 1 + Len(searchOut.val) * Len(call.sources)
    /\ fetches >= 5

\* C30 (empty inputs): from_isbn with an empty provider list returns Ok with
\* the default record and sends no request; from_description whose search
\* returns no candidate returns Ok with an empty list and sends no request
\* but the search.
EmptyInputsReturnEmpty ==
    /\ (pc = "done" /\ call.entry = "from_isbn" /\ call.sources = <<>>)
       => /\ result = Ok(MetadataDefault)
          /\ fetches = 0
    /\ (pc = "done" /\ call.entry = "from_description" /\ searchOut = Ok(<<>>))
       => /\ result = Ok(<<>>)
          /\ fetches = 1
          /\ task = <<>>
    /\ (call.entry = "from_isbn" /\ call.sources = <<>>) => pc # "panicked"
    /\ (call.entry = "from_description" /\ searchOut = Ok(<<>>)) => pc # "panicked"

\* C30's case: a from_description call with a non-empty provider list whose
\* search returned no candidate has returned.
EmptyInputsWitness ==
    /\ pc = "done"
    /\ call.entry = "from_description"
    /\ call.sources # <<>>
    /\ searchOut = Ok(<<>>)
    /\ result = Ok(<<>>)

-----------------------------------------------------------------------------
(* Termination, under SpecLive                                             *)

\* C28 (termination): when every request that was sent completes, a call
\* whose requests are in flight returns, a call that names only sources
\* with a provider returns, and no call stays forever short of its end (the
\* other end being the panic of a source without provider).
EveryCallEnds ==
    /\ (pc = "join") ~> (pc = "done")
    /\ ~NamesUnsupported => <>(pc = "done")
    /\ <>(pc = "done" \/ pc = "panicked")

\* C28's case: a from_description call with several candidates has returned
\* after every request completed, one of them with a failure.
EveryCallEndsWitness ==
    /\ pc = "done"
    /\ call.entry = "from_description"
    /\ call.sources # <<>>
    /\ Len(isbns) >= 2
    /\ \E k \in DOMAIN task : Failed(k) # {}
    /\ \A k \in DOMAIN task : InFlight(k) = {}
    /\ result # NoResult

-----------------------------------------------------------------------------
(* Claims about the adaptors, under SpecAdaptor                            *)

\* C27 (field adaptors never panic): whatever list of language maps or of
\* cover ids is handed to it, with values of any length, the adaptor returns
\* a collection of outcomes and does not panic.
AdaptorsNeverPanic ==
    adapted # NoResult =>
        /\ adapted # Panicked
        /\ IsSome(adapted)
        /\ \A i \in DOMAIN adapted.val : IsOk(adapted.val[i]) \/ IsErr(adapted.val[i])

====
